---- MODULE Spec2Model ----
(***************************************************************************)
(* Motif enrichment (rgt/motifanalysis/Main.py, main_enrichment): the      *)
(* motif list and its batches, the background statistics, and for every    *)
(* region set the gene association, the contingency counts, the Fisher     *)
(* test, the multiple-test correction, the ranking and the MPBS filter.    *)
(*                                                                         *)
(* Motif names and region-set names are positive integers (their order is  *)
(* the order of the names as strings); None and an unbound name are 0.     *)
(* A float is an exact fraction <<numerator, denominator>>.                *)
(***************************************************************************)
EXTENDS Integers, Sequences, FiniteSets, TLC

\* ------------------------------------------------------------------ bounds
MaxMotif == 2
NumRepos == 2
MaxProcesses == 2
MaxRegions == 2
MaxHits == 2
MaxRegionSets == 2
NumChroms == 1
MaxPos == 1

None == 0

\* ------------------------------------------------------------- sequences
RECURSIVE SeqsUpTo(_, _)
\* every sequence over S of length <= n
SeqsUpTo(S, n) ==
    IF n = 0 THEN {<<>>}
    ELSE LET shorter == SeqsUpTo(S, n - 1)
         IN shorter \cup {Append(s, x) : s \in {t \in shorter : Len(t) = n - 1}, x \in S}

RECURSIVE Flatten(_)
Flatten(seqs) == IF seqs = <<>> THEN <<>> ELSE Head(seqs) \o Flatten(Tail(seqs))

Range(s) == {s[i] : i \in 1..Len(s)}

Min(a, b) == IF a <= b THEN a ELSE b

\* --------------------------------------------------------------- floats
RECURSIVE Gcd(_, _)
Gcd(a, b) == IF b = 0 THEN a ELSE Gcd(b, a % b)

Frac(n, d) == LET g == Gcd(n, d) IN <<n \div g, d \div g>>

One == <<1, 1>>

Leq(p, q) == p[1] * q[2] <= q[1] * p[2]

Less(p, q) == p[1] * q[2] < q[1] * p[2]

\* ------------------------------------------------------- the motif list
RECURSIVE InsertSorted(_, _)
InsertSorted(x, s) ==
    IF s = <<>> THEN <<x>>
    ELSE IF x < Head(s) THEN <<x>> \o s
    ELSE <<Head(s)>> \o InsertSorted(x, Tail(s))

RECURSIVE Sorted(_)
\* sorted(motif_names)
Sorted(s) == IF s = <<>> THEN <<>> ELSE InsertSorted(Head(s), Sorted(Tail(s)))

RECURSIVE GlobPwm(_)
\* the *.pwm files of one repository, as motif names (one file per name)
GlobPwm(repository) ==
    IF repository = {} THEN <<>>
    ELSE LET m == CHOOSE x \in repository : TRUE
         IN <<m>> \o GlobPwm(repository \ {m})

RECURSIVE AppendRepositories(_, _)
\* the loop over motif_data.get_pwm_list(): every name of every repository
\* that the user's selection admits is appended
AppendRepositories(repositories, selected_motifs) ==
    IF repositories = <<>> THEN <<>>
    ELSE SelectSeq(GlobPwm(Head(repositories)),
                   LAMBDA m : selected_motifs = {} \/ m \in selected_motifs)
         \o AppendRepositories(Tail(repositories), selected_motifs)

FetchMotifNames(repositories, selected_motifs) ==
    Sorted(AppendRepositories(repositories, selected_motifs))

\* ------------------------------------------------------------- batches
RECURSIVE MapRound(_, _, _, _)
\* one round of Python 2's map(None, it, ..., it) over p references to the
\* same iterator: a slot that saw StopIteration yields None from then on
MapRound(names, p, j, st) ==
    IF j > p THEN st
    ELSE IF j \in st.saw
    THEN MapRound(names, p, j + 1, [st EXCEPT !.tuple = Append(@, None)])
    ELSE IF st.pos <= Len(names)
    THEN MapRound(names, p, j + 1,
                  [st EXCEPT !.tuple = Append(@, names[st.pos]),
                             !.pos = @ + 1, !.numactive = @ + 1])
    ELSE MapRound(names, p, j + 1,
                  [st EXCEPT !.tuple = Append(@, None), !.saw = @ \cup {j}])

RECURSIVE MapNone(_, _, _, _)
\* the rounds go on until one yields no item at all
MapNone(names, p, pos, saw) ==
    LET st == MapRound(names, p, 1,
                       [pos |-> pos, saw |-> saw, tuple |-> <<>>, numactive |-> 0])
    IN IF st.numactive = 0 THEN <<>>
       ELSE <<st.tuple>> \o MapNone(names, p, st.pos, st.saw)

StripNone(group) == SelectSeq(group, LAMBDA e : e # None)

\* a plausible slip: zip(*(iter(motif_names),) * processes), which drops the
\* trailing partial batch
GroupZip(names, p) ==
    IF p = 1 THEN [i \in 1..Len(names) |-> <<names[i]>>]
    ELSE LET groups == MapNone(names, p, 1, {})
         IN SelectSeq(groups, LAMBDA g : None \notin Range(g))

GroupMotifNames(names, p) ==
    IF p = 1 THEN [i \in 1..Len(names) |-> <<names[i]>>]
    ELSE LET groups == MapNone(names, p, 1, {})
         IN [i \in 1..Len(groups) |-> StripNone(groups[i])]

\* ------------------------------------------------- genomic intervals
Intervals(chroms, pos) ==
    {v \in [chrom : 1..chroms, initial : 0..(pos - 1), final : 1..pos] :
        v.initial < v.final}

\* GenomicRegion ordering: chromosome, then start, then end
IntervalLeq(x, y) ==
    \/ x.chrom < y.chrom
    \/ x.chrom = y.chrom /\ x.initial < y.initial
    \/ x.chrom = y.chrom /\ x.initial = y.initial /\ x.final <= y.final

SameInterval(x, y) == x.chrom = y.chrom /\ x.initial = y.initial /\ x.final = y.final

IsSortedSet(s) == \A i \in 1..(Len(s) - 1) : IntervalLeq(s[i], s[i + 1])

\* a token of a region's name: a gene symbol, with or without the leading
\* "." marker; the bare "." is the marker with no symbol
DotToken == [marker |-> TRUE, gene |-> 0]

NameChoices ==
    {<<DotToken>>, <<[marker |-> FALSE, gene |-> 1]>>, <<[marker |-> TRUE, gene |-> 1]>>}

\* gr.proximity of a name of NameChoices: "." with the name ".", the
\* distance "0" with a gene
NearProximity(nm) == IF nm = <<DotToken>> THEN <<".">> ELSE <<"0">>

\* a region of an input file: chrom, initial, final, the name of the BED
\* line (no gene yet), data (the score) and orientation (the strand)
Region(v, data, orientation) ==
    [chrom |-> v.chrom, initial |-> v.initial, final |-> v.final, name |-> <<>>,
     proximity |-> <<>>, data |-> data, orientation |-> orientation]

\* gene_association on one region: name and proximity are rewritten, every
\* other field is kept
Annotate(gr, near) == [gr EXCEPT !.name = near.name, !.proximity = near.proximity]

\* gene_association on a region set: every region annotated, in its place
Annotated(regions, near) == [i \in 1..Len(regions) |-> Annotate(regions[i], near[i])]

\* the sorted region sets, each region with the name and the proximity
\* gene_association gave it
RegionFiles(chroms, pos, n) ==
    {s \in SeqsUpTo({Annotate(Region(v, 0, "."), [name |-> nm, proximity |-> NearProximity(nm)]) :
                         v \in Intervals(chroms, pos), nm \in NameChoices}, n) :
        IsSortedSet(s)}

\* the sorted region sets as read from the input, before gene_association
RegionSets(chroms, pos, n) ==
    {s \in SeqsUpTo({Region(v, 0, ".") : v \in Intervals(chroms, pos)}, n) : IsSortedSet(s)}

\* the sorted MPBS files: every hit carries the name of its motif
MpbsFiles(chroms, pos, n) ==
    {s \in SeqsUpTo({[chrom |-> v.chrom, initial |-> v.initial, final |-> v.final,
                      name |-> m] : v \in Intervals(chroms, pos), m \in 1..MaxMotif}, n) :
        /\ IsSortedSet(s)
        \* of two hits of one interval the lower motif name comes first
        /\ \A i \in 1..(Len(s) - 1) :
              SameInterval(s[i], s[i + 1]) => s[i].name <= s[i + 1].name}

\* ------------------------------------------------ contingency counts
\* half-open intervals of the same chromosome
Overlap(r, h) == r.chrom = h.chrom /\ r.initial < h.final /\ h.initial < r.final

RECURSIVE HasHit(_, _, _)
HasHit(r, mpbs, m) ==
    IF mpbs = <<>> THEN FALSE
    ELSE IF Head(mpbs).name = m /\ Overlap(r, Head(mpbs)) THEN TRUE
    ELSE HasHit(r, Tail(mpbs), m)

RECURSIVE NumHits(_, _, _)
NumHits(r, mpbs, m) ==
    IF mpbs = <<>> THEN 0
    ELSE (IF Head(mpbs).name = m /\ Overlap(r, Head(mpbs)) THEN 1 ELSE 0)
         + NumHits(r, Tail(mpbs), m)

RECURSIVE CountHits(_, _, _)
\* a slip: every hit of the motif counted, not every region with a hit
CountHits(regions, mpbs, m) ==
    IF regions = <<>> THEN 0
    ELSE NumHits(Head(regions), mpbs, m) + CountHits(Tail(regions), mpbs, m)

RECURSIVE CountWithHit(_, _, _)
\* the regions that hold at least one hit of motif m
CountWithHit(regions, mpbs, m) ==
    IF regions = <<>> THEN 0
    ELSE (IF HasHit(Head(regions), mpbs, m) THEN 1 ELSE 0)
         + CountWithHit(Tail(regions), mpbs, m)

\* the hits of motif m inside the regions, as written to output_mpbs_file
WrittenMpbs(regions, mpbs, m) ==
    SelectSeq(mpbs, LAMBDA h : h.name = m /\ \E i \in 1..Len(regions) : Overlap(regions[i], h))

EmptyDict == <<>>

Put(dict, k, v) == [x \in DOMAIN dict \cup {k} |-> IF x = k THEN v ELSE dict[x]]

\* dict.update: a key of both takes the value of the second
Merge(d1, d2) ==
    [x \in DOMAIN d1 \cup DOMAIN d2 |-> IF x \in DOMAIN d2 THEN d2[x] ELSE d1[x]]

NoCount == [res1 |-> EmptyDict, res2 |-> EmptyDict, out |-> <<>>]

\* a slip: the maps of a batch assigned, not merged into the maps so far
MergeCountAssign(sofar, batch) ==
    [res1 |-> batch.res1, res2 |-> batch.res2, out |-> sofar.out \o batch.out]

\* the maps of a batch merged into the maps so far, its hits written after
MergeCount(sofar, batch) ==
    [res1 |-> Merge(sofar.res1, batch.res1),
     res2 |-> Merge(sofar.res2, batch.res2),
     out |-> sofar.out \o batch.out]

\* one motif: the regions with a hit of it, those without, the hits written
MotifCount(m, with_hit, regions, mpbs) ==
    [res1 |-> Put(EmptyDict, m, with_hit),
     res2 |-> Put(EmptyDict, m, Len(regions) - with_hit),
     out |-> WrittenMpbs(regions, mpbs, m)]

RECURSIVE FisherBatch(_, _, _, _)
\* one batch: the counts of each of its motifs
FisherBatch(batch, regions, mpbs, sofar) ==
    IF batch = <<>> THEN sofar
    ELSE FisherBatch(Tail(batch), regions, mpbs,
                     MergeCount(sofar, MotifCount(Head(batch),
                                                  CountWithHit(regions, mpbs, Head(batch)),
                                                  regions, mpbs)))

RECURSIVE MergeBatches(_, _, _, _)
MergeBatches(motif_groups, regions, mpbs, sofar) ==
    IF motif_groups = <<>> THEN sofar
    ELSE MergeBatches(Tail(motif_groups), regions, mpbs,
                      MergeCount(sofar, FisherBatch(Head(motif_groups), regions, mpbs, NoCount)))

\* every batch in turn, its maps merged into the result
get_fisher_dict(motif_groups, regions, mpbs) ==
    MergeBatches(motif_groups, regions, mpbs, NoCount)

\* the orders in which n batches may complete
CompletionOrders(n) == {f \in [1..n -> 1..n] : \A i, j \in 1..n : f[i] = f[j] => i = j}

Permuted(s, order) == [i \in 1..Len(s) |-> s[order[i]]]

\* the batches merged in the order in which they complete
get_fisher_dict_as_completed(order, motif_groups, regions, mpbs) ==
    MergeBatches(Permuted(motif_groups, order), regions, mpbs, NoCount)

\* ------------------------------------------------------ Fisher's test
RECURSIVE Binomial(_, _)
Binomial(n, k) ==
    IF k < 0 \/ k > n THEN 0
    ELSE IF k = 0 THEN 1
    ELSE (Binomial(n - 1, k - 1) * n) \div k

RECURSIVE HyperSum(_, _, _, _, _)
\* the number of tables with the margins of (a, b, c, d) and x in lo..hi
HyperSum(lo, hi, row1, row2, col1) ==
    IF lo > hi THEN 0
    ELSE Binomial(row1, lo) * Binomial(row2, col1 - lo)
         + HyperSum(lo + 1, hi, row1, row2, col1)

\* pvalue(a, b, c, d).right_tail: P(X >= a) under the hypergeometric law
RightTail(a, b, c, d) ==
    Frac(HyperSum(a, Min(a + b, a + c), a + b, c + d, a + c),
         Binomial(a + b + c + d, a + c))

\* --------------------------------------------- multiple-test correction
RECURSIVE InsertIndex(_, _, _)
InsertIndex(ps, i, s) ==
    IF s = <<>> THEN <<i>>
    ELSE IF Less(ps[i], ps[Head(s)]) THEN <<i>> \o s
    ELSE <<Head(s)>> \o InsertIndex(ps, i, Tail(s))

RECURSIVE ArgSort(_, _)
\* the indices 1..n of ps by ascending p-value, equal values in index order
ArgSort(ps, n) == IF n = 0 THEN <<>> ELSE InsertIndex(ps, n, ArgSort(ps, n - 1))

FracMin(p, q) == IF Leq(p, q) THEN p ELSE q

\* p(i) * n / i for the i-th smallest p-value of n
Scaled(p, n, i) == Frac(p[1] * n, p[2] * i)

RECURSIVE CumMin(_, _, _)
\* Benjamini-Hochberg: min over j >= i of p(j) * n / j, at most 1
CumMin(ps, order, i) ==
    IF i = Len(ps) THEN FracMin(Scaled(ps[order[i]], Len(ps), i), One)
    ELSE FracMin(Scaled(ps[order[i]], Len(ps), i), CumMin(ps, order, i + 1))

RECURSIVE RankOf(_, _, _)
\* the position of index i in the sorted order
RankOf(order, i, r) == IF order[r] = i THEN r ELSE RankOf(order, i, r + 1)

CorrectInOrder(ps, order) == [i \in 1..Len(ps) |-> CumMin(ps, order, RankOf(order, i, 1))]

\* multiple_test_correction(pvals, alpha, method='indep')[1]
multiple_test_correction(ps) == CorrectInOrder(ps, ArgSort(ps, Len(ps)))

FracMul(p, q) == Frac(p[1] * q[1], p[2] * q[2])

RECURSIVE HarmonicSum(_)
\* 1 + 1/2 + ... + 1/n
HarmonicSum(n) ==
    IF n = 0 THEN <<0, 1>>
    ELSE LET h == HarmonicSum(n - 1) IN Frac(h[1] * n + h[2], h[2] * n)

\* a slip: the step-up factor multiplied by the harmonic sum, not divided by it
CorrectionFactorInverted(method, n) ==
    IF method = "negcorr" /\ n > 0 THEN <<HarmonicSum(n)[2], HarmonicSum(n)[1]>> ELSE One

\* what the scaled p-values are multiplied by: 1 for the independent method,
\* the harmonic sum for the dependent one
CorrectionFactor(method, n) == IF method = "negcorr" THEN HarmonicSum(n) ELSE One

RECURSIVE CumMinBy(_, _, _, _)
\* min over j >= i of cm * p(j) * n / j, at most 1
CumMinBy(ps, order, i, cm) ==
    IF i = Len(ps) THEN FracMin(FracMul(Scaled(ps[order[i]], Len(ps), i), cm), One)
    ELSE FracMin(FracMul(Scaled(ps[order[i]], Len(ps), i), cm),
                 CumMinBy(ps, order, i + 1, cm))

CorrectInOrderBy(ps, order, cm) ==
    [i \in 1..Len(ps) |-> CumMinBy(ps, order, RankOf(order, i, 1), cm)]

\* multiple_test_correction(pvals, alpha, method)[1], method 'indep' or 'negcorr'
multiple_test_correction_by(method, ps) ==
    CorrectInOrderBy(ps, ArgSort(ps, Len(ps)), CorrectionFactor(method, Len(ps)))

\* ------------------------------------------------------------- ranking
\* a slip: sorted(...)[::-1] for reverse=True, which turns results of equal
\* percent around
BeforeSlice(key, x, y) ==
    CASE key = "name" -> x.name < y.name
      [] key = "percent" -> Leq(y.percent, x.percent)
      [] key = "p_value" -> Less(x.p_value, y.p_value)
      [] key = "corr_p_value" -> Less(x.corr_p_value, y.corr_p_value)

\* key(x) < key(y) for the key of one of the four sorts; the percent sort
\* is reverse=True
Before(key, x, y) ==
    CASE key = "name" -> x.name < y.name
      [] key = "percent" -> Less(y.percent, x.percent)
      [] key = "p_value" -> Less(x.p_value, y.p_value)
      [] key = "corr_p_value" -> Less(x.corr_p_value, y.corr_p_value)

RECURSIVE InsertStable(_, _, _)
InsertStable(x, s, key) ==
    IF s = <<>> THEN <<x>>
    ELSE IF Before(key, x, Head(s)) THEN <<x>> \o s
    ELSE <<Head(s)>> \o InsertStable(x, Tail(s), key)

RECURSIVE StableSort(_, _, _)
\* sorted(list, key=...): stable, equal keys keep their order
StableSort(s, n, key) ==
    IF n = 0 THEN <<>> ELSE InsertStable(s[n], StableSort(s, n - 1, key), key)

\* a slip: the four sorts in the opposite order
SortResultsNameLast(results) ==
    LET byCorr == StableSort(results, Len(results), "corr_p_value")
        byP == StableSort(byCorr, Len(byCorr), "p_value")
        byPercent == StableSort(byP, Len(byP), "percent")
    IN StableSort(byPercent, Len(byPercent), "name")

\* lines 924-927: by name, by percent descending, by p-value, by corrected p-value
SortResults(results) ==
    LET byName == StableSort(results, Len(results), "name")
        byPercent == StableSort(byName, Len(byName), "percent")
        byP == StableSort(byPercent, Len(byPercent), "p_value")
    IN StableSort(byP, Len(byP), "corr_p_value")

\* ------------------------------------------- the results for printing
RECURSIVE Pow10(_)
Pow10(k) == IF k = 0 THEN 1 ELSE 10 * Pow10(k - 1)

RECURSIVE Exponent(_, _)
\* the least k >= 0 with p * 10^k >= 1, for 0 < p <= 1
Exponent(p, k) == IF p[1] * Pow10(k) >= p[2] THEN k ELSE Exponent(p, k + 1)

\* n / d rounded to the nearest integer
RoundDiv(n, d) == (2 * n + d) \div (2 * d)

\* "%.4e" % p: the string of a mantissa of five digits and an exponent
FormatE(p) ==
    IF p[1] = 0 THEN <<"%.4e", 0, 0>>
    ELSE LET k == Exponent(p, 0)
             m == RoundDiv(p[1] * Pow10(k + 4), p[2])
         IN IF m = 100000 THEN <<"%.4e", 10000, 1 - k>> ELSE <<"%.4e", m, -k>>

\* str(round(x, 4) * 100) + "%": the string of the hundredths of a percent
FormatPercent(x) == <<"%", RoundDiv(x[1] * 10000, x[2])>>

\* lines 930-933 and 1101-1105: the four fields of r overwritten by strings
PrepareResult(r) ==
    [r EXCEPT !.p_value = FormatE(r.p_value),
              !.corr_p_value = FormatE(r.corr_p_value),
              !.percent = FormatPercent(r.percent),
              !.back_percent = FormatPercent(r.back_percent)]

\* for r in result_list
Prepared(rl) == [i \in 1..Len(rl) |-> PrepareResult(rl[i])]

\* ------------------------------------------------------ the MPBS filter
RECURSIVE FilterLinesStrict(_, _, _, _)
\* a slip: >= for >, which drops a motif whose corrected p-value is the threshold
FilterLinesStrict(lines, dict, thresh, written) ==
    IF lines = <<>> THEN [out |-> written, raised |-> FALSE]
    ELSE IF Head(lines).name \notin DOMAIN dict THEN [out |-> written, raised |-> TRUE]
    ELSE IF Leq(thresh, dict[Head(lines).name])
    THEN FilterLinesStrict(Tail(lines), dict, thresh, written)
    ELSE FilterLinesStrict(Tail(lines), dict, thresh, Append(written, Head(lines)))

RECURSIVE FilterLines(_, _, _, _)
\* for line in file: if corr_pvalue_dict[ll[3]] > print_thresh: continue;
\* else write(line). A name the dictionary lacks raises KeyError.
FilterLines(lines, dict, thresh, written) ==
    IF lines = <<>> THEN [out |-> written, raised |-> FALSE]
    ELSE IF Head(lines).name \notin DOMAIN dict THEN [out |-> written, raised |-> TRUE]
    ELSE IF Less(thresh, dict[Head(lines).name])
    THEN FilterLines(Tail(lines), dict, thresh, written)
    ELSE FilterLines(Tail(lines), dict, thresh, Append(written, Head(lines)))

\* ---------------------------------------------------------------- state
VARIABLES
    options,              \* the parsed options: processes, print_thresh
    input_list,           \* the Input objects: gene_set, region_list
    pc,                   \* where main_enrichment is
    err,                  \* the error that ended the run, or "none"
    motif_names,
    motif_names_grouped,
    background_regions,   \* the background BED file
    bg_c_dict,
    bg_d_dict,
    input_idx,            \* the position of curr_input in input_list
    grs_idx,              \* the position of grs in curr_input.region_list
    curr_mpbs_file_name,  \* the region set whose MPBS file it names, or None
    curr_mpbs_bed,        \* the contents of that file
    grs,                  \* the region set after gene_association
    ev_regions,           \* ev_regions.bed
    nev_regions,          \* nev_regions.bed
    association_bed,      \* the gene-coordinate association file
    curr_a_dict,
    curr_b_dict,
    curr_c_dict,
    curr_d_dict,
    ev_mpbs_temp,         \* mpbs_ev_temp.bed
    nev_mpbs_temp,        \* mpbs_nev_temp.bed
    result_list,
    corr_pvalue_dict,
    fisher_raised,        \* the positions of motif_names where pvalue raised
    report_list,          \* the results as the report writers read them
    ev_mpbs_thresh,       \* mpbs_ev_thresh.bed
    nev_mpbs_thresh,      \* mpbs_nev_thresh.bed
    arguments,            \* the input files of the command line
    genomic_regions_dict, \* the objects read, by name
    exp_matrix_fields_dict,  \* the names of the objects of each gene group
    flag_gene,            \* the experimental matrix has the gene group column
    regions_to_match,     \* main_matching: the region sets to match
    output_files,         \* main_matching: the files of the output location
    warnings              \* the warnings thrown so far

setup == <<options, input_list, motif_names, motif_names_grouped>>
background == <<background_regions, bg_c_dict, bg_d_dict>>
position == <<input_idx, grs_idx>>
mpbs_file == <<curr_mpbs_file_name, curr_mpbs_bed>>
region_files == <<grs, ev_regions, nev_regions, association_bed>>
counts == <<curr_a_dict, curr_b_dict, curr_c_dict, curr_d_dict, ev_mpbs_temp, nev_mpbs_temp>>
results == <<result_list, corr_pvalue_dict, fisher_raised, report_list>>
filtered == <<ev_mpbs_thresh, nev_mpbs_thresh>>

reading == <<arguments, genomic_regions_dict, exp_matrix_fields_dict, flag_gene,
             regions_to_match, output_files, warnings>>

vars == <<setup, background, position, mpbs_file, region_files, counts, results,
          filtered, reading, pc, err>>

\* --print-thresh: 1.0 prints every MPBS
ThreshChoices == {<<1, 2>>, One}

\* one Input holding the region sets 1..MaxRegionSets, with or without a gene set
InputLists ==
    {<<[gene_set |-> g, region_list |-> [i \in 1..MaxRegionSets |-> i]]>> : g \in BOOLEAN}

curr_input == input_list[input_idx]

NoRegionFiles ==
    /\ grs' = <<>> /\ ev_regions' = <<>> /\ nev_regions' = <<>>
    /\ association_bed' = <<>>

NoCounts ==
    /\ curr_a_dict' = EmptyDict /\ curr_b_dict' = EmptyDict
    /\ curr_c_dict' = EmptyDict /\ curr_d_dict' = EmptyDict
    /\ ev_mpbs_temp' = <<>> /\ nev_mpbs_temp' = <<>>

NoResults ==
    /\ result_list' = <<>> /\ corr_pvalue_dict' = EmptyDict /\ fisher_raised' = {}
    /\ report_list' = <<>>

NoFiltered == ev_mpbs_thresh' = <<>> /\ nev_mpbs_thresh' = <<>>

\* main_enrichment once input_list is built: the objects read are not used
\* again, and no warning was thrown
InputListBuilt ==
    /\ arguments = <<>>
    /\ genomic_regions_dict = EmptyDict
    /\ exp_matrix_fields_dict = EmptyDict
    /\ flag_gene = FALSE
    /\ regions_to_match = <<>>
    /\ output_files = {}
    /\ warnings = <<>>

Init ==
    /\ options \in [processes : 0..MaxProcesses, print_thresh : ThreshChoices]
    /\ input_list \in InputLists
    /\ pc = "motif_list"
    /\ err = "none"
    /\ motif_names = <<>>
    /\ motif_names_grouped = <<>>
    /\ background_regions = <<>>
    /\ bg_c_dict = EmptyDict
    /\ bg_d_dict = EmptyDict
    /\ input_idx = 1
    /\ grs_idx = 1
    /\ curr_mpbs_file_name = None
    /\ curr_mpbs_bed = <<>>
    /\ grs = <<>>
    /\ ev_regions = <<>>
    /\ nev_regions = <<>>
    /\ association_bed = <<>>
    /\ curr_a_dict = EmptyDict
    /\ curr_b_dict = EmptyDict
    /\ curr_c_dict = EmptyDict
    /\ curr_d_dict = EmptyDict
    /\ ev_mpbs_temp = <<>>
    /\ nev_mpbs_temp = <<>>
    /\ result_list = <<>>
    /\ corr_pvalue_dict = EmptyDict
    /\ fisher_raised = {}
    /\ report_list = <<>>
    /\ ev_mpbs_thresh = <<>>
    /\ nev_mpbs_thresh = <<>>
    /\ InputListBuilt

\* an uncaught exception, or err.throw_error: the run ends
Raise(e) == pc' = "error" /\ err' = e

\* ------------------------------------------- motif list and batches
FetchMotifList ==
    /\ pc = "motif_list"
    /\ \E repositories \in [1..NumRepos -> SUBSET (1..MaxMotif)],
          selected_motifs \in SUBSET (1..MaxMotif) :
           motif_names' = FetchMotifNames(repositories, selected_motifs)
    /\ pc' = "group"
    /\ UNCHANGED <<options, input_list, motif_names_grouped, background, position,
                   mpbs_file, region_files, counts, results, filtered, err>>
    /\ UNCHANGED reading

\* a slip: the batches made without the check of the process count
GroupMotifsUnchecked ==
    /\ pc = "group"
    /\ motif_names_grouped' = GroupMotifNames(motif_names, options.processes)
    /\ pc' = "background"
    /\ UNCHANGED <<options, input_list, motif_names, background, position,
                   mpbs_file, region_files, counts, results, filtered, err>>
    /\ UNCHANGED reading

\* lines 714-721: the check of the process count, then the batches
GroupMotifs ==
    /\ pc = "group"
    /\ IF options.processes <= 0
       THEN Raise("ME_LOW_NPROC") /\ UNCHANGED motif_names_grouped
       ELSE /\ motif_names_grouped' = GroupMotifNames(motif_names, options.processes)
            /\ pc' = "background"
            /\ UNCHANGED err
    /\ UNCHANGED <<options, input_list, motif_names, background, position,
                   mpbs_file, region_files, counts, results, filtered>>
    /\ UNCHANGED reading

\* ------------------------------------------------ background statistics
\* the region sets and MPBS files a run may read
InputRegionFiles == RegionFiles(NumChroms, MaxPos, MaxRegions)

\* the region sets of the input list, as read
InputRegionSets == RegionSets(NumChroms, MaxPos, MaxRegions)

InputMpbsFiles == MpbsFiles(NumChroms, MaxPos, MaxHits)

BackgroundFiles ==
    {s \in InputRegionFiles : \A i \in 1..Len(s) : s[i].name = <<DotToken>>}

SetBackground(bg) == bg_c_dict' = bg.res1 /\ bg_d_dict' = bg.res2

BackgroundStatistics ==
    /\ pc = "background"
    /\ \/ /\ Raise("DEFAULT_ERROR")     \* no background file, or no MPBS file of it
          /\ UNCHANGED background
       \/ \E regions \in BackgroundFiles, mpbs \in InputMpbsFiles :
            /\ background_regions' = regions
            /\ SetBackground(get_fisher_dict(motif_names_grouped, regions, mpbs))
            /\ pc' = "region_sets"
            /\ UNCHANGED err
    /\ UNCHANGED <<setup, position, mpbs_file, region_files, counts, results, filtered>>
    /\ UNCHANGED reading

\* ------------------------------------------------- one region set
\* for curr_input in input_list: for grs in curr_input.region_list: the
\* output folder and the glob for the MPBS file of the region set
NextRegionSet ==
    /\ pc = "region_sets"
    /\ IF input_idx > Len(input_list)
       THEN /\ pc' = "done"
            /\ UNCHANGED <<position, mpbs_file, grs, err>>
       ELSE IF grs_idx > Len(curr_input.region_list)
       THEN /\ input_idx' = input_idx + 1
            /\ grs_idx' = 1
            /\ UNCHANGED <<pc, mpbs_file, grs, err>>
       ELSE \/ \E regions \in InputRegionSets, mpbs \in InputMpbsFiles :
                 \* grs is the region set of the list, curr_mpbs_glob[0] its file
                 /\ grs' = regions
                 /\ curr_mpbs_file_name' = curr_input.region_list[grs_idx]
                 /\ curr_mpbs_bed' = mpbs
                 /\ pc' = "association"
                 /\ UNCHANGED <<position, err>>
            \/ \* the glob is empty: IndexError, except Exception: pass
               /\ IF curr_mpbs_file_name = None
                  THEN Raise("NameError") /\ UNCHANGED grs  \* line 816 reads an unbound name
                  ELSE /\ grs' \in InputRegionSets
                       /\ pc' = "association"
                       /\ UNCHANGED err
               /\ UNCHANGED <<position, mpbs_file>>
    /\ UNCHANGED <<setup, background, ev_regions, nev_regions, association_bed, counts,
                   results, filtered>>
    /\ UNCHANGED reading

\* line 862: some token of the name does not start with "."
IsEvidence(gr) == Len(SelectSeq(gr.name, LAMBDA e : ~e.marker)) > 0

\* line 840: e if e[0] != "." else e[1:]
StripMarker(e) == e.gene

\* zip(curr_gene_list, curr_prox_list): as long as the shorter list
ZipTokens(genes, prox) ==
    [j \in 1..Min(Len(genes), Len(prox)) |-> [gene |-> genes[j], distance |-> prox[j]]]

\* the name "."
BareDot == [bare |-> TRUE]

\* a slip: every gene written with the distance of the first one
AssociationNameFirst(gr) ==
    IF gr.name = <<DotToken>> THEN BareDot
    ELSE [bare |-> FALSE,
          tokens |-> [j \in 1..Len(gr.name) |->
                         [gene |-> StripMarker(gr.name[j]), distance |-> gr.proximity[1]]]]

\* lines 837-842: curr_name, "." or the tokens gene_distance joined by ":"
AssociationName(gr) ==
    IF gr.name = <<DotToken>> THEN BareDot
    ELSE [bare |-> FALSE,
          tokens |-> ZipTokens([j \in 1..Len(gr.name) |-> StripMarker(gr.name[j])],
                               gr.proximity)]

\* lines 834-844: one line for each region
AssociationBed(regions) ==
    [i \in 1..Len(regions) |->
        [chrom |-> regions[i].chrom, initial |-> regions[i].initial,
         final |-> regions[i].final, name |-> AssociationName(regions[i])]]

\* a slip: the line written without the strand of the region
RegionLineNoStrand(gr) ==
    [chrom |-> gr.chrom, initial |-> gr.initial, final |-> gr.final, name |-> gr.name,
     data |-> gr.data, orientation |-> "."]

\* lines 863-865, 867-869, 1046-1047: chrom, initial, final, name, data, orientation
RegionLine(gr) ==
    [chrom |-> gr.chrom, initial |-> gr.initial, final |-> gr.final, name |-> gr.name,
     data |-> gr.data, orientation |-> gr.orientation]

BedLines(regions) == [i \in 1..Len(regions) |-> RegionLine(regions[i])]

\* lines 861-865: ev_regions.bed; without gene set every region (lines 1045-1047)
EvRegionsBed(regions, gene_set) ==
    IF gene_set THEN BedLines(SelectSeq(regions, IsEvidence)) ELSE BedLines(regions)

\* a slip: only the regions with no gene at all written to nev_regions.bed
NevRegionsBedBare(regions, gene_set) ==
    IF gene_set THEN BedLines(SelectSeq(regions, LAMBDA gr : gr.name = <<DotToken>>))
    ELSE <<>>

\* lines 861-869: nev_regions.bed, written only with a gene set
NevRegionsBed(regions, gene_set) ==
    IF gene_set THEN BedLines(SelectSeq(regions, LAMBDA gr : ~IsEvidence(gr))) ELSE <<>>

\* the region set gene_association returned, and the files written from it
Associate(regions) ==
    /\ grs' = regions
    /\ association_bed' = IF curr_input.gene_set THEN AssociationBed(regions) ELSE <<>>
    /\ ev_regions' = EvRegionsBed(regions, curr_input.gene_set)
    /\ nev_regions' = NevRegionsBed(regions, curr_input.gene_set)

\* what the annotation may answer for one region
NearChoices == {[name |-> nm, proximity |-> NearProximity(nm)] : nm \in NameChoices}

\* the regions with their genes, and ev_regions.bed / nev_regions.bed
Association ==
    /\ pc = "association"
    /\ \E near \in [1..Len(grs) -> NearChoices] : Associate(Annotated(grs, near))
    /\ pc' = "statistics"
    /\ UNCHANGED <<setup, background, position, mpbs_file, counts, results, filtered, err>>
    /\ UNCHANGED reading

SetCounts(ev, nev) ==
    /\ curr_a_dict' = ev.res1
    /\ curr_b_dict' = ev.res2
    /\ ev_mpbs_temp' = ev.out
    /\ IF curr_input.gene_set
       THEN /\ curr_c_dict' = nev.res1
            /\ curr_d_dict' = nev.res2
            /\ nev_mpbs_temp' = nev.out
            /\ pc' = "gene_test"
       ELSE /\ UNCHANGED <<curr_c_dict, curr_d_dict, nev_mpbs_temp>>
            /\ pc' = "site_test"

\* a slip: the whole region set counted as evidence
EvCountsAll == get_fisher_dict(motif_names_grouped, grs, curr_mpbs_bed)

\* lines 880-884 and 1054-1058: the counts of ev_regions.bed
EvCounts == get_fisher_dict(motif_names_grouped, ev_regions, curr_mpbs_bed)

\* lines 885-889: the counts of nev_regions.bed
NevCounts == get_fisher_dict(motif_names_grouped, nev_regions, curr_mpbs_bed)

\* lines 875-893 and 1051-1060: the counts of the evidence regions and, with
\* a gene set, of the non-evidence regions, on the MPBS file of the name
Statistics ==
    /\ pc = "statistics"
    /\ SetCounts(EvCounts, IF curr_input.gene_set THEN NevCounts ELSE NoCount)
    /\ UNCHANGED <<setup, background, position, mpbs_file, region_files, results,
                   filtered, err>>
    /\ UNCHANGED reading

\* the same calls, the batches of each completing in any order
StatisticsAsCompleted ==
    /\ pc = "statistics"
    /\ \E ev_order, nev_order \in CompletionOrders(Len(motif_names_grouped)) :
          SetCounts(get_fisher_dict_as_completed(ev_order, motif_names_grouped,
                                                 ev_regions, curr_mpbs_bed),
                    IF curr_input.gene_set
                    THEN get_fisher_dict_as_completed(nev_order, motif_names_grouped,
                                                      nev_regions, curr_mpbs_bed)
                    ELSE NoCount)
    /\ UNCHANGED <<setup, background, position, mpbs_file, region_files, results,
                   filtered, err>>
    /\ UNCHANGED reading

\* ------------------------------------------------------- the two tests
\* a slip: the gene test given the table of the site test
GeneTableBackground(k) ==
    [a |-> curr_a_dict[k], b |-> curr_b_dict[k], c |-> bg_c_dict[k], d |-> bg_d_dict[k]]

\* lines 900-903: the gene test takes c, d from the non-evidence regions
GeneTable(k) ==
    [a |-> curr_a_dict[k], b |-> curr_b_dict[k], c |-> curr_c_dict[k], d |-> curr_d_dict[k]]

\* a slip: d read from the with-hit dictionary
SiteTableSwapped(k) ==
    [a |-> curr_a_dict[k], b |-> curr_b_dict[k], c |-> bg_c_dict[k], d |-> bg_c_dict[k]]

\* lines 1071-1074: the site test takes c, d from the background
SiteTable(k) ==
    [a |-> curr_a_dict[k], b |-> curr_b_dict[k], c |-> bg_c_dict[k], d |-> bg_d_dict[k]]

\* float(r.a) / float(r.a + r.b) or float(r.c) / float(r.c + r.d) divides by zero
ZeroDivision(t) == t.a + t.b = 0 \/ t.c + t.d = 0

\* a slip: the failure of pvalue() taken for full significance
MakeResultZero(k, t, raised) ==
    [name |-> k, a |-> t.a, b |-> t.b, c |-> t.c, d |-> t.d,
     percent |-> Frac(t.a, t.a + t.b),
     back_percent |-> Frac(t.c, t.c + t.d),
     p_value |-> IF raised THEN <<0, 1>> ELSE RightTail(t.a, t.b, t.c, t.d),
     corr_p_value |-> One]

\* a slip: pvalue(r.b, r.a, r.d, r.c), the columns of the table exchanged
MakeResultSwapped(k, t, raised) ==
    [name |-> k, a |-> t.a, b |-> t.b, c |-> t.c, d |-> t.d,
     percent |-> Frac(t.a, t.a + t.b),
     back_percent |-> Frac(t.c, t.c + t.d),
     p_value |-> IF raised THEN One ELSE RightTail(t.b, t.a, t.d, t.c),
     corr_p_value |-> One]

\* one Result: the counts, the two frequencies and the p-value, 1.0 when
\* pvalue() raised
MakeResult(k, t, raised) ==
    [name |-> k, a |-> t.a, b |-> t.b, c |-> t.c, d |-> t.d,
     percent |-> Frac(t.a, t.a + t.b),
     back_percent |-> Frac(t.c, t.c + t.d),
     p_value |-> IF raised THEN One ELSE RightTail(t.a, t.b, t.c, t.d),
     corr_p_value |-> One]

\* a slip: the corrected list read from its end
SetCorrectedReversed(rl, corr) ==
    [i \in 1..Len(rl) |-> [rl[i] EXCEPT !.corr_p_value = corr[Len(rl) + 1 - i]]]

SetCorrected(rl, corr) == [i \in 1..Len(rl) |-> [rl[i] EXCEPT !.corr_p_value = corr[i]]]

\* result_list[i].corr_p_value = multiple_corr_list[i]
Corrected(rl) ==
    SetCorrected(rl, multiple_test_correction([i \in 1..Len(rl) |-> rl[i].p_value]))

RECURSIVE CorrDict(_, _)
\* corr_pvalue_dict[result_list[i].name] = result_list[i].corr_p_value, i ascending
CorrDict(rl, n) ==
    IF n = 0 THEN EmptyDict
    ELSE Put(CorrDict(rl, n - 1), rl[n].name, rl[n].corr_p_value)

\* pvalue() raises for no motif, or for the first one of the list
RaiseChoices == {{}} \cup {{motif_names[i]} : i \in {1} \cap DOMAIN motif_names}

\* lines 936-958: the evidence file, then the non-evidence file
GeneFilter(dict) ==
    LET ev == FilterLines(ev_mpbs_temp, dict, options.print_thresh, <<>>)
        nev == FilterLines(nev_mpbs_temp, dict, options.print_thresh, <<>>)
    IN /\ ev_mpbs_thresh' = ev.out
       /\ IF ev.raised
          THEN nev_mpbs_thresh' = <<>> /\ Raise("KeyError")
          ELSE /\ nev_mpbs_thresh' = nev.out
               /\ IF nev.raised THEN Raise("KeyError")
                                ELSE pc' = "site_test" /\ UNCHANGED err

\* a slip: the evidence MPBSs filtered again after the site test
SiteFilterAgain(dict) ==
    LET ev == FilterLines(ev_mpbs_temp, dict, options.print_thresh, <<>>)
    IN /\ ev_mpbs_thresh' = ev.out
       /\ UNCHANGED nev_mpbs_thresh
       /\ IF ev.raised THEN Raise("KeyError") ELSE pc' = "wrap_up" /\ UNCHANGED err

\* lines 1107-1121: only when the gene test has not printed the evidence MPBSs
SiteFilter(dict) ==
    IF curr_input.gene_set
    THEN pc' = "wrap_up" /\ UNCHANGED <<filtered, err>>
    ELSE LET ev == FilterLines(ev_mpbs_temp, dict, options.print_thresh, <<>>)
         IN /\ ev_mpbs_thresh' = ev.out
            /\ UNCHANGED nev_mpbs_thresh
            /\ IF ev.raised THEN Raise("KeyError") ELSE pc' = "wrap_up" /\ UNCHANGED err

\* the table of motif k in the gene test or in the site test
Table(test, k) == IF test = "gene" THEN GeneTable(k) ELSE SiteTable(k)

\* the dictionaries the loop of a test reads
TestDicts(test) ==
    IF test = "gene" THEN {curr_a_dict, curr_b_dict, curr_c_dict, curr_d_dict}
                     ELSE {curr_a_dict, curr_b_dict, bg_c_dict, bg_d_dict}

\* the MPBS output of a test
Filter(test, dict) == IF test = "gene" THEN GeneFilter(dict) ELSE SiteFilter(dict)

\* the result list once corrected: the four sorts, the results prepared for
\* printing, the dictionary, the filter
Finish(rl, raised, test) ==
    /\ result_list' = SortResults(rl)
    /\ report_list' = Prepared(SortResults(rl))
    /\ corr_pvalue_dict' = CorrDict(rl, Len(rl))
    /\ fisher_raised' = raised
    /\ Filter(test, CorrDict(rl, Len(rl)))

\* a slip: a correction that raises on an empty list of p-values
RunTestNonEmpty(test) ==
    IF motif_names = <<>>
    THEN Raise("ValueError") /\ UNCHANGED <<results, filtered>>
    ELSE IF \E i \in 1..Len(motif_names) : \E dict \in TestDicts(test) :
          motif_names[i] \notin DOMAIN dict
    THEN Raise("KeyError") /\ UNCHANGED <<results, filtered>>
    ELSE IF \E i \in 1..Len(motif_names) : ZeroDivision(Table(test, motif_names[i]))
    THEN Raise("ZeroDivisionError") /\ UNCHANGED <<results, filtered>>
    ELSE \E raised \in RaiseChoices :
           Finish(Corrected([i \in 1..Len(motif_names) |->
                                MakeResult(motif_names[i], Table(test, motif_names[i]),
                                           motif_names[i] \in raised)]),
                  raised, test)

\* the loop over motif_names, the correction and the four sorts
RunTest(test) ==
    IF \E i \in 1..Len(motif_names) : \E dict \in TestDicts(test) :
          motif_names[i] \notin DOMAIN dict
    THEN Raise("KeyError") /\ UNCHANGED <<results, filtered>>
    ELSE IF \E i \in 1..Len(motif_names) : ZeroDivision(Table(test, motif_names[i]))
    THEN Raise("ZeroDivisionError") /\ UNCHANGED <<results, filtered>>
    ELSE \E raised \in RaiseChoices :
           Finish(Corrected([i \in 1..Len(motif_names) |->
                                MakeResult(motif_names[i], Table(test, motif_names[i]),
                                           motif_names[i] \in raised)]),
                  raised, test)

\* lines 895-958: the gene test of the region set and its MPBS output
GeneTest ==
    /\ pc = "gene_test"
    /\ RunTest("gene")
    /\ UNCHANGED <<setup, background, position, mpbs_file, region_files, counts>>
    /\ UNCHANGED reading

\* lines 1066-1121: the site test of the region set and its MPBS output
SiteTest ==
    /\ pc = "site_test"
    /\ RunTest("site")
    /\ UNCHANGED <<setup, background, position, mpbs_file, region_files, counts>>
    /\ UNCHANGED reading

\* the statistics are printed and the files of to_remove_list removed; the
\* dictionaries and lists of this region set are all assigned again before
\* the next region set reads them, the MPBS file name is not
WrapUp ==
    /\ pc = "wrap_up"
    /\ NoRegionFiles /\ NoCounts /\ NoResults /\ NoFiltered
    /\ grs_idx' = grs_idx + 1
    /\ pc' = "region_sets"
    /\ UNCHANGED <<setup, background, input_idx, mpbs_file, err>>
    /\ UNCHANGED reading

Next ==
    \/ FetchMotifList
    \/ GroupMotifs
    \/ BackgroundStatistics
    \/ NextRegionSet
    \/ Association
    \/ Statistics
    \/ GeneTest
    \/ SiteTest
    \/ WrapUp

Spec == Init /\ [][Next]_vars

\* ------------------------------------------- the counting on its own
\* The state before Statistics, the files drawn from a genome one chromosome
\* and one position larger: a background without regions, every motif of one
\* repository, the regions named "." or with one gene.
CountRegionFiles ==
    {s \in RegionFiles(NumChroms + 1, MaxPos + 1, MaxRegions) :
        \A i \in 1..Len(s) : ~s[i].name[1].marker \/ s[i].name = <<DotToken>>}

CountInit ==
    /\ options \in [processes : 1..MaxProcesses, print_thresh : {One}]
    /\ input_list \in InputLists
    /\ pc = "statistics"
    /\ err = "none"
    /\ motif_names = FetchMotifNames(<<1..MaxMotif>>, {})
    /\ motif_names_grouped = GroupMotifNames(motif_names, options.processes)
    /\ background_regions = <<>>
    /\ bg_c_dict = get_fisher_dict(motif_names_grouped, <<>>, <<>>).res1
    /\ bg_d_dict = get_fisher_dict(motif_names_grouped, <<>>, <<>>).res2
    /\ input_idx = 1
    /\ grs_idx = 1
    /\ curr_mpbs_file_name = 1
    /\ curr_mpbs_bed \in MpbsFiles(NumChroms + 1, MaxPos + 1, MaxHits)
    /\ grs \in CountRegionFiles
    /\ ev_regions = EvRegionsBed(grs, curr_input.gene_set)
    /\ nev_regions = NevRegionsBed(grs, curr_input.gene_set)
    /\ association_bed = IF curr_input.gene_set THEN AssociationBed(grs) ELSE <<>>
    /\ curr_a_dict = EmptyDict
    /\ curr_b_dict = EmptyDict
    /\ curr_c_dict = EmptyDict
    /\ curr_d_dict = EmptyDict
    /\ ev_mpbs_temp = <<>>
    /\ nev_mpbs_temp = <<>>
    /\ result_list = <<>>
    /\ corr_pvalue_dict = EmptyDict
    /\ fisher_raised = {}
    /\ report_list = <<>>
    /\ ev_mpbs_thresh = <<>>
    /\ nev_mpbs_thresh = <<>>
    /\ InputListBuilt

CountNext == Statistics

CountSpec == CountInit /\ [][CountNext]_vars

\* -------------------------------------------- the filter on its own
\* The state before the site test of a region set without gene set, the
\* temporary MPBS stream drawn from the records of any motif, the motifs
\* of no result among them.
FilterStreams ==
    SeqsUpTo({[chrom |-> v.chrom, initial |-> v.initial, final |-> v.final, name |-> m] :
                 v \in Intervals(NumChroms, MaxPos), m \in 1..(MaxMotif + 1)}, MaxHits)

FilterInit ==
    /\ options \in [processes : {1}, print_thresh : ThreshChoices]
    /\ input_list = <<[gene_set |-> FALSE, region_list |-> <<1>>]>>
    /\ pc = "site_test"
    /\ err = "none"
    /\ motif_names \in {FetchMotifNames(<<r>>, {}) : r \in SUBSET (1..MaxMotif)}
    /\ motif_names_grouped = GroupMotifNames(motif_names, 1)
    /\ background_regions \in {s \in BackgroundFiles : s # <<>>}
    /\ bg_c_dict = get_fisher_dict(motif_names_grouped, background_regions, <<>>).res1
    /\ bg_d_dict = get_fisher_dict(motif_names_grouped, background_regions, <<>>).res2
    /\ input_idx = 1
    /\ grs_idx = 1
    /\ curr_mpbs_file_name = 1
    /\ curr_mpbs_bed \in InputMpbsFiles
    /\ grs \in {s \in InputRegionFiles : s # <<>>}
    /\ ev_regions = EvRegionsBed(grs, FALSE)
    /\ nev_regions = <<>>
    /\ association_bed = <<>>
    /\ curr_a_dict = get_fisher_dict(motif_names_grouped, ev_regions, curr_mpbs_bed).res1
    /\ curr_b_dict = get_fisher_dict(motif_names_grouped, ev_regions, curr_mpbs_bed).res2
    /\ curr_c_dict = EmptyDict
    /\ curr_d_dict = EmptyDict
    /\ ev_mpbs_temp \in FilterStreams
    /\ nev_mpbs_temp = <<>>
    /\ result_list = <<>>
    /\ corr_pvalue_dict = EmptyDict
    /\ fisher_raised = {}
    /\ report_list = <<>>
    /\ ev_mpbs_thresh = <<>>
    /\ nev_mpbs_thresh = <<>>
    /\ InputListBuilt

FilterNext == SiteTest \/ WrapUp

FilterSpec == FilterInit /\ [][FilterNext]_vars

\* ------------------------------------- the merge of the batches on its own
\* The state before Statistics of a region set, for the motif lists of the
\* repositories of at most MaxMotif + 1 names and a background of one region;
\* the batches then complete in any order.
MergeInit ==
    /\ options \in [processes : 1..MaxProcesses, print_thresh : {One}]
    /\ input_list \in InputLists
    /\ pc = "statistics"
    /\ err = "none"
    /\ motif_names \in {FetchMotifNames(r, {}) : r \in [1..NumRepos -> SUBSET (1..MaxMotif)]}
    /\ Len(motif_names) <= MaxMotif + 1
    /\ motif_names_grouped = GroupMotifNames(motif_names, options.processes)
    /\ background_regions \in {s \in BackgroundFiles : Len(s) = 1}
    /\ \E mpbs \in InputMpbsFiles :
          /\ bg_c_dict = get_fisher_dict(motif_names_grouped, background_regions, mpbs).res1
          /\ bg_d_dict = get_fisher_dict(motif_names_grouped, background_regions, mpbs).res2
    /\ input_idx = 1
    /\ grs_idx = 1
    /\ curr_mpbs_file_name = 1
    /\ curr_mpbs_bed \in InputMpbsFiles
    /\ grs \in InputRegionFiles
    /\ ev_regions = EvRegionsBed(grs, curr_input.gene_set)
    /\ nev_regions = NevRegionsBed(grs, curr_input.gene_set)
    /\ association_bed = IF curr_input.gene_set THEN AssociationBed(grs) ELSE <<>>
    /\ curr_a_dict = EmptyDict
    /\ curr_b_dict = EmptyDict
    /\ curr_c_dict = EmptyDict
    /\ curr_d_dict = EmptyDict
    /\ ev_mpbs_temp = <<>>
    /\ nev_mpbs_temp = <<>>
    /\ result_list = <<>>
    /\ corr_pvalue_dict = EmptyDict
    /\ fisher_raised = {}
    /\ report_list = <<>>
    /\ ev_mpbs_thresh = <<>>
    /\ nev_mpbs_thresh = <<>>
    /\ InputListBuilt

MergeNext == StatisticsAsCompleted \/ GeneTest \/ SiteTest \/ WrapUp

MergeSpec == MergeInit /\ [][MergeNext]_vars

\* ------------------------------- correction and ranking on their own
MaxResults == 3

\* results of any motif with any p-value: two frequencies, two backgrounds
ResultChoices ==
    {[name |-> k, a |-> 1, b |-> b, c |-> c, d |-> 1 - c,
      percent |-> Frac(1, 1 + b), back_percent |-> Frac(c, 1),
      p_value |-> p, corr_p_value |-> One] :
        k \in 1..MaxMotif, b \in 0..1, c \in 0..1, p \in {<<1, 4>>, One}}

\* The state after the loop over the motifs, for any list of at most
\* MaxResults results, and either method of multiple_test_correction.
RankInit ==
    /\ options \in [processes : {1}, print_thresh : {One}, method : {"indep", "negcorr"}]
    /\ input_list = <<[gene_set |-> FALSE, region_list |-> <<1>>]>>
    /\ pc = "correct"
    /\ err = "none"
    /\ motif_names = <<>>
    /\ motif_names_grouped = <<>>
    /\ background_regions = <<>>
    /\ bg_c_dict = EmptyDict
    /\ bg_d_dict = EmptyDict
    /\ input_idx = 1
    /\ grs_idx = 1
    /\ curr_mpbs_file_name = 1
    /\ curr_mpbs_bed = <<>>
    /\ grs = <<>>
    /\ ev_regions = <<>>
    /\ nev_regions = <<>>
    /\ association_bed = <<>>
    /\ curr_a_dict = EmptyDict
    /\ curr_b_dict = EmptyDict
    /\ curr_c_dict = EmptyDict
    /\ curr_d_dict = EmptyDict
    /\ ev_mpbs_temp = <<>>
    /\ nev_mpbs_temp = <<>>
    /\ result_list \in SeqsUpTo(ResultChoices, MaxResults)
    /\ corr_pvalue_dict = EmptyDict
    /\ fisher_raised = {}
    /\ report_list = <<>>
    /\ ev_mpbs_thresh = <<>>
    /\ nev_mpbs_thresh = <<>>
    /\ InputListBuilt

\* lines 914-921 with the method of the options
CorrectResults ==
    /\ pc = "correct"
    /\ result_list' = SetCorrected(result_list,
                                   multiple_test_correction_by(options.method,
                                       [i \in 1..Len(result_list) |-> result_list[i].p_value]))
    /\ corr_pvalue_dict' = CorrDict(result_list', Len(result_list))
    /\ pc' = "sort"
    /\ UNCHANGED <<setup, background, position, mpbs_file, region_files, counts,
                   fisher_raised, report_list, filtered, err>>
    /\ UNCHANGED reading

\* lines 923-927
RankResults ==
    /\ pc = "sort"
    /\ result_list' = SortResults(result_list)
    /\ pc' = "ranked"
    /\ UNCHANGED <<setup, background, position, mpbs_file, region_files, counts,
                   corr_pvalue_dict, fisher_raised, report_list, filtered, err>>
    /\ UNCHANGED reading

RankNext == CorrectResults \/ RankResults

RankSpec == RankInit /\ [][RankNext]_vars

\* ------------------------------------ the gene association on its own
MaxGenes == 2

\* the promoter windows of an annotation: each gene once, on chromosome 1,
\* one base wide, in the gene list (listed) or not
PromoterChoices ==
    {[gene |-> k, chrom |-> 1, initial |-> p, final |-> p + 1, listed |-> l] :
        k \in 1..MaxGenes, p \in 0..MaxPos, l \in BOOLEAN}

Annotations ==
    {a \in SeqsUpTo(PromoterChoices, MaxGenes) :
        \A j \in 1..(Len(a) - 1) : a[j].gene < a[j + 1].gene}

Abs(x) == IF x < 0 THEN -x ELSE x

Digits == <<"0", "1", "2", "3", "4", "5", "6", "7", "8", "9">>

\* str(distance)
DistanceStr(d) == IF d < 0 THEN "-" \o Digits[1 - d] ELSE Digits[d + 1]

\* 0 when the promoter window overlaps the region, else the number of bases
\* from the region to the window, negative when the window is before it
SignedDistance(gr, g) ==
    IF Overlap(gr, g) THEN 0
    ELSE IF g.initial >= gr.final THEN g.initial - (gr.final - 1)
    ELSE -(gr.initial - (g.final - 1))

\* a slip: the genes at max_distance or farther
promoters_far(gr, annotation, max_distance) ==
    SelectSeq(annotation,
              LAMBDA g : g.chrom = gr.chrom /\ Abs(SignedDistance(gr, g)) >= max_distance)

\* the genes of the annotation whose promoter window is within max_distance
\* of the region, all of them, in the order of the annotation
promoters_near(gr, annotation, max_distance) ==
    SelectSeq(annotation,
              LAMBDA g : g.chrom = gr.chrom /\ Abs(SignedDistance(gr, g)) < max_distance)

\* name and proximity of a region: a token for each gene, with the marker
\* when a gene set is given and the gene is not in it, or "." and "."
NearGenes(gr, near, gene_set) ==
    IF near = <<>> THEN [name |-> <<DotToken>>, proximity |-> <<".">>]
    ELSE [name |-> [j \in 1..Len(near) |->
                       [marker |-> gene_set /\ ~near[j].listed, gene |-> near[j].gene]],
          proximity |-> [j \in 1..Len(near) |-> DistanceStr(SignedDistance(gr, near[j]))]]

\* grs.gene_association(gene_set, organism, promoter_length, max_distance)
gene_association(regions, gene_set, annotation, max_distance) ==
    Annotated(regions,
              [i \in 1..Len(regions) |->
                  NearGenes(regions[i], promoters_near(regions[i], annotation, max_distance),
                            gene_set)])

\* the region sets of a genome one chromosome and one position larger, the
\* regions with a score and a strand
AssociationRegionSets ==
    {s \in SeqsUpTo({Region(v, data, orientation) :
                        v \in Intervals(NumChroms + 1, MaxPos + 1),
                        data \in 0..1, orientation \in {"+", "-"}}, MaxRegions) :
        IsSortedSet(s)}

\* The state before the association of the first region set, with a
\* background of one region and an MPBS file without hits, for every
\* annotation and every maximum association length.
AssociationInit ==
    /\ options \in [processes : {1}, print_thresh : {One}, organism : Annotations,
                     maximum_association_length : 0..(MaxPos + 1)]
    /\ input_list \in InputLists
    /\ pc = "association"
    /\ err = "none"
    /\ motif_names = <<1>>
    /\ motif_names_grouped = <<<<1>>>>
    /\ background_regions \in {s \in BackgroundFiles : Len(s) = 1}
    /\ bg_c_dict = get_fisher_dict(motif_names_grouped, background_regions, <<>>).res1
    /\ bg_d_dict = get_fisher_dict(motif_names_grouped, background_regions, <<>>).res2
    /\ input_idx = 1
    /\ grs_idx = 1
    /\ curr_mpbs_file_name = 1
    /\ curr_mpbs_bed = <<>>
    /\ grs \in AssociationRegionSets
    /\ ev_regions = <<>>
    /\ nev_regions = <<>>
    /\ association_bed = <<>>
    /\ curr_a_dict = EmptyDict
    /\ curr_b_dict = EmptyDict
    /\ curr_c_dict = EmptyDict
    /\ curr_d_dict = EmptyDict
    /\ ev_mpbs_temp = <<>>
    /\ nev_mpbs_temp = <<>>
    /\ result_list = <<>>
    /\ corr_pvalue_dict = EmptyDict
    /\ fisher_raised = {}
    /\ report_list = <<>>
    /\ ev_mpbs_thresh = <<>>
    /\ nev_mpbs_thresh = <<>>
    /\ InputListBuilt

\* a slip: the association called with a maximum association length of 0
AssociationOfGenesNoLength ==
    /\ pc = "association"
    /\ Associate(gene_association(grs, curr_input.gene_set, options.organism, 0))
    /\ pc' = "statistics"
    /\ UNCHANGED <<setup, background, position, mpbs_file, counts, results, filtered, err>>
    /\ UNCHANGED reading

\* lines 831-832 with the annotation of options.organism, then the files
AssociationOfGenes ==
    /\ pc = "association"
    /\ Associate(gene_association(grs, curr_input.gene_set, options.organism,
                                  options.maximum_association_length))
    /\ pc' = "statistics"
    /\ UNCHANGED <<setup, background, position, mpbs_file, counts, results, filtered, err>>
    /\ UNCHANGED reading

AssociationNext == AssociationOfGenes

AssociationSpec == AssociationInit /\ [][AssociationNext]_vars

\* ------------------------------------------ the Fisher test on its own
MaxCount == 3

\* n regions, or hits, of one interval
Copies(x, n) == [i \in 1..n |-> x]

\* a regions with a hit of the motif and b without: the first on the
\* interval of the hit, the others after it
TableRegions(a, b) ==
    Copies([chrom |-> 1, initial |-> 0, final |-> 1, name |-> <<DotToken>>,
            proximity |-> <<".">>, data |-> 0, orientation |-> "."], a)
    \o Copies([chrom |-> 1, initial |-> 1, final |-> 2, name |-> <<DotToken>>,
               proximity |-> <<".">>, data |-> 0, orientation |-> "."], b)

\* the MPBS file that gives the first a regions their hit
TableMpbs(a) == Copies([chrom |-> 1, initial |-> 0, final |-> 1, name |-> 1], Min(a, 1))

\* The state before the site test of one motif on a region set without gene
\* set, for every table (a, b, c, d) of counts up to MaxCount.
FisherInit ==
    /\ options \in [processes : {1}, print_thresh : {One}]
    /\ input_list = <<[gene_set |-> FALSE, region_list |-> <<1>>]>>
    /\ pc = "site_test"
    /\ err = "none"
    /\ motif_names = <<1>>
    /\ motif_names_grouped = <<<<1>>>>
    /\ \E c \in 0..MaxCount, d \in 0..MaxCount :
          /\ background_regions = TableRegions(c, d)
          /\ bg_c_dict = get_fisher_dict(motif_names_grouped, TableRegions(c, d),
                                         TableMpbs(c)).res1
          /\ bg_d_dict = get_fisher_dict(motif_names_grouped, TableRegions(c, d),
                                         TableMpbs(c)).res2
    /\ input_idx = 1
    /\ grs_idx = 1
    /\ curr_mpbs_file_name = 1
    /\ \E a \in 0..MaxCount, b \in 0..MaxCount :
          /\ curr_mpbs_bed = TableMpbs(a)
          /\ grs = TableRegions(a, b)
    /\ ev_regions = EvRegionsBed(grs, FALSE)
    /\ nev_regions = <<>>
    /\ association_bed = <<>>
    /\ curr_a_dict = get_fisher_dict(motif_names_grouped, ev_regions, curr_mpbs_bed).res1
    /\ curr_b_dict = get_fisher_dict(motif_names_grouped, ev_regions, curr_mpbs_bed).res2
    /\ curr_c_dict = EmptyDict
    /\ curr_d_dict = EmptyDict
    /\ ev_mpbs_temp = get_fisher_dict(motif_names_grouped, ev_regions, curr_mpbs_bed).out
    /\ nev_mpbs_temp = <<>>
    /\ result_list = <<>>
    /\ corr_pvalue_dict = EmptyDict
    /\ fisher_raised = {}
    /\ report_list = <<>>
    /\ ev_mpbs_thresh = <<>>
    /\ nev_mpbs_thresh = <<>>
    /\ InputListBuilt

FisherNext == SiteTest \/ WrapUp

FisherSpec == FisherInit /\ [][FisherNext]_vars

\* --------------------------------------------------------- main_matching
MaxArguments == 2

\* the region sets named by the input files of the command line
InputFileNames == {"input1", "input2"}

GenomicRegionSet(name) == [kind |-> "GenomicRegionSet", name |-> name]

GeneSet(name) == [kind |-> "GeneSet", name |-> name]

\* exp_matrix.objectsDict of the matrices a run may read
MatrixDicts ==
    {[k \in K |-> IF k = "matrix_genes" THEN GeneSet(k) ELSE GenomicRegionSet(k)] :
        K \in SUBSET {"matrix_regions", "matrix_genes"}}

File(name, ext) == [name |-> name, ext |-> ext]

RECURSIVE SetToSeq(_)
SetToSeq(S) ==
    IF S = {} THEN <<>>
    ELSE LET x == CHOOSE x \in S : TRUE IN <<x>> \o SetToSeq(S \ {x})

\* The state after parse_args() of main_matching, for every combination of
\* the options (given or not) and up to MaxArguments input files.
MatchingInit ==
    /\ options \in [input_matrix : BOOLEAN, promoter_genes_filename : BOOLEAN,
                     promoter_make_background : BOOLEAN, rand_proportion : BOOLEAN,
                     bigbed : BOOLEAN, normalize_bitscore : BOOLEAN]
    /\ arguments \in SeqsUpTo(InputFileNames, MaxArguments)
    /\ pc = "matching_arguments"
    /\ err = "none"
    /\ input_list = <<>>
    /\ motif_names = <<>>
    /\ motif_names_grouped = <<>>
    /\ background_regions = <<>>
    /\ bg_c_dict = EmptyDict
    /\ bg_d_dict = EmptyDict
    /\ input_idx = 1
    /\ grs_idx = 1
    /\ curr_mpbs_file_name = None
    /\ curr_mpbs_bed = <<>>
    /\ grs = <<>>
    /\ ev_regions = <<>>
    /\ nev_regions = <<>>
    /\ association_bed = <<>>
    /\ curr_a_dict = EmptyDict
    /\ curr_b_dict = EmptyDict
    /\ curr_c_dict = EmptyDict
    /\ curr_d_dict = EmptyDict
    /\ ev_mpbs_temp = <<>>
    /\ nev_mpbs_temp = <<>>
    /\ result_list = <<>>
    /\ corr_pvalue_dict = EmptyDict
    /\ fisher_raised = {}
    /\ report_list = <<>>
    /\ ev_mpbs_thresh = <<>>
    /\ nev_mpbs_thresh = <<>>
    /\ genomic_regions_dict = EmptyDict
    /\ exp_matrix_fields_dict = EmptyDict
    /\ flag_gene = FALSE
    /\ regions_to_match = <<>>
    /\ output_files = {}
    /\ warnings = <<>>

enrichment == <<input_list, motif_names, motif_names_grouped, background, position,
                mpbs_file, region_files, counts, results, filtered>>

\* lines 187-199: the check of the arguments, then the conflicting options
CheckArguments ==
    /\ pc = "matching_arguments"
    /\ IF ~options.input_matrix /\ Len(arguments) = 0
       THEN Raise("ME_FEW_ARG") /\ UNCHANGED options
       ELSE /\ options' = IF options.promoter_genes_filename
                          THEN [options EXCEPT !.rand_proportion = FALSE,
                                               !.input_matrix = FALSE]
                          ELSE options
            /\ pc' = "matching_read"
            /\ UNCHANGED err
    /\ UNCHANGED <<enrichment, reading>>

\* lines 242-271: the promoters of the target genes and, with
\* --make-background, of the other genes
PromoterRegions ==
    IF ~options.promoter_genes_filename THEN EmptyDict
    ELSE IF options.promoter_make_background
    THEN Put(Put(EmptyDict, "target_regions", GenomicRegionSet("target_regions")),
             "background_regions", GenomicRegionSet("background_regions"))
    ELSE Put(EmptyDict, "target_regions", GenomicRegionSet("target_regions"))

\* lines 285-291: genomic_regions_dict[name] = regions for each input file
InputFileRegions == [k \in Range(arguments) |-> GenomicRegionSet(k)]

\* lines 238-295: the promoter regions, then the experimental matrix or else
\* the input files
ReadRegions ==
    /\ pc = "matching_read"
    /\ output_files' = {File(k, "bed") : k \in DOMAIN PromoterRegions}
    /\ IF options.input_matrix
       THEN \/ /\ Raise("MM_WRONG_EXPMAT")
               /\ genomic_regions_dict' = PromoterRegions
            \/ \E objectsDict \in MatrixDicts :
                  /\ genomic_regions_dict' = objectsDict
                  /\ IF objectsDict = EmptyDict
                     THEN Raise("DEFAULT_ERROR")
                     ELSE pc' = "matching_select" /\ UNCHANGED err
       ELSE /\ genomic_regions_dict' = Merge(PromoterRegions, InputFileRegions)
            /\ IF genomic_regions_dict' = EmptyDict
               THEN Raise("DEFAULT_ERROR")
               ELSE pc' = "matching_select" /\ UNCHANGED err
    /\ UNCHANGED <<enrichment, options, arguments, exp_matrix_fields_dict, flag_gene,
                   regions_to_match, warnings>>

\* lines 297-319: the GenomicRegionSets of the dictionary, in the order of
\* its keys
SelectRegions ==
    /\ pc = "matching_select"
    /\ LET keys == SetToSeq({k \in DOMAIN genomic_regions_dict :
                                genomic_regions_dict[k].kind = "GenomicRegionSet"})
       IN \E order \in CompletionOrders(Len(keys)) :
             regions_to_match' = Permuted(keys, order)
    /\ pc' = "matching_random"
    /\ UNCHANGED <<enrichment, options, arguments, genomic_regions_dict,
                   exp_matrix_fields_dict, flag_gene, output_files, warnings, err>>

\* lines 326-354: the random regions, and their bigbed file with --bigbed;
\* max_region is None when no region set was read
RandomRegions ==
    /\ pc = "matching_random"
    /\ IF ~options.rand_proportion
       THEN pc' = "matching_match" /\ UNCHANGED <<regions_to_match, output_files, err>>
       ELSE IF regions_to_match = <<>>
       THEN Raise("AttributeError") /\ UNCHANGED <<regions_to_match, output_files>>
       ELSE /\ regions_to_match' = Append(regions_to_match, "random_regions")
            /\ output_files' =
                  output_files \cup {File("random_regions",
                                          IF options.bigbed THEN "bb" ELSE "bed")}
            /\ pc' = "matching_match"
            /\ UNCHANGED err
    /\ UNCHANGED <<enrichment, options, arguments, genomic_regions_dict,
                   exp_matrix_fields_dict, flag_gene, warnings>>

\* lines 396-426: the MPBS file of each region set, as bigbed with --bigbed
\* and --normalize-bitscore
Match ==
    /\ pc = "matching_match"
    /\ output_files' =
          output_files \cup
             {File(regions_to_match[i] \o "_mpbs",
                   IF options.bigbed /\ options.normalize_bitscore THEN "bb" ELSE "bed") :
                 i \in 1..Len(regions_to_match)}
    /\ pc' = "done"
    /\ UNCHANGED <<enrichment, options, arguments, genomic_regions_dict,
                   exp_matrix_fields_dict, flag_gene, regions_to_match, warnings, err>>

MatchingNext == CheckArguments \/ ReadRegions \/ SelectRegions \/ RandomRegions \/ Match

MatchingSpec == MatchingInit /\ [][MatchingNext]_vars

\* ------------------------------------------------- the list of the inputs
MaxObjects == 4

\* the gene groups an experimental matrix may name
GeneGroups == {"groupA", "groupB"}

\* the name column of the rows of the matrix
RowNames == <<"name1", "name2", "name3", "name4">>

\* Input(gene_set, region_list) of Util; the objects are referred to by the
\* row of the matrix that names them
Input(gene_set, region_list) == [gene_set |-> gene_set, region_list |-> region_list]

\* exp_matrix.objectsDict: the object of every row
ObjectsDict(kinds) ==
    [k \in DOMAIN kinds |-> IF kinds[k] = "GeneSet" THEN GeneSet(RowNames[k])
                                                    ELSE GenomicRegionSet(RowNames[k])]

\* exp_matrix.fieldsDict[gene_column_name]: for every gene group of the
\* matrix, its rows in the order of the file
FieldsDict(groups) ==
    [g \in Range(groups) |-> SelectSeq([k \in DOMAIN groups |-> k], LAMBDA k : groups[k] = g)]

\* The state at line 633: the objects of a matrix of up to MaxObjects rows
\* with a gene group column, or the objects of a matrix without the column
\* or of the input files.
InputInit ==
    /\ \E n \in 1..MaxObjects :
          \E kinds \in [1..n -> {"GenomicRegionSet", "GeneSet"}] :
             /\ genomic_regions_dict = ObjectsDict(kinds)
             /\ \/ /\ flag_gene = TRUE
                   /\ \E groups \in [1..n -> GeneGroups] :
                         exp_matrix_fields_dict = FieldsDict(groups)
                \/ /\ flag_gene = FALSE
                   /\ exp_matrix_fields_dict = EmptyDict
    /\ options \in [processes : {1}, print_thresh : {One}]
    /\ arguments = <<>>
    /\ regions_to_match = <<>>
    /\ output_files = {}
    /\ warnings = <<>>
    /\ pc = "input_list"
    /\ err = "none"
    /\ input_list = <<>>
    /\ motif_names = <<>>
    /\ motif_names_grouped = <<>>
    /\ background_regions = <<>>
    /\ bg_c_dict = EmptyDict
    /\ bg_d_dict = EmptyDict
    /\ input_idx = 1
    /\ grs_idx = 1
    /\ curr_mpbs_file_name = None
    /\ curr_mpbs_bed = <<>>
    /\ grs = <<>>
    /\ ev_regions = <<>>
    /\ nev_regions = <<>>
    /\ association_bed = <<>>
    /\ curr_a_dict = EmptyDict
    /\ curr_b_dict = EmptyDict
    /\ curr_c_dict = EmptyDict
    /\ curr_d_dict = EmptyDict
    /\ ev_mpbs_temp = <<>>
    /\ nev_mpbs_temp = <<>>
    /\ result_list = <<>>
    /\ corr_pvalue_dict = EmptyDict
    /\ fisher_raised = {}
    /\ report_list = <<>>
    /\ ev_mpbs_thresh = <<>>
    /\ nev_mpbs_thresh = <<>>

\* the state of the loop over a gene group: the input, the flag, the objects
\* and the warnings thrown
GroupStart(objects, thrown) ==
    [curr_input |-> Input(None, <<>>), flag_foundgeneset |-> FALSE,
     objects |-> objects, warnings |-> thrown]

\* a slip: every GeneSet of the group taken as the gene set of the input
ReadObjectLast(g, k, s) ==
    IF s.objects[k].kind = "GenomicRegionSet"
    THEN [s EXCEPT !.curr_input.region_list = Append(@, k)]
    ELSE [s EXCEPT !.objects[k].name = g,
                   !.curr_input.gene_set = k,
                   !.flag_foundgeneset = TRUE,
                   !.warnings = IF s.flag_foundgeneset
                                THEN Append(@, "ME_MANY_GENESETS") ELSE @]

\* lines 648-670: one object of the group
ReadObject(g, k, s) ==
    IF s.objects[k].kind = "GenomicRegionSet"
    THEN [s EXCEPT !.curr_input.region_list = Append(@, k)]
    ELSE IF ~s.flag_foundgeneset
    THEN [s EXCEPT !.objects[k].name = g,
                   !.curr_input.gene_set = k,
                   !.flag_foundgeneset = TRUE]
    ELSE [s EXCEPT !.objects[k].name = g,
                   !.warnings = Append(@, "ME_MANY_GENESETS")]

RECURSIVE ReadObjects(_, _, _)
\* line 648: for k in exp_matrix_fields_dict[g]
ReadObjects(g, keys, s) ==
    IF keys = <<>> THEN s
    ELSE ReadObjects(g, Tail(keys), ReadObject(g, Head(keys), s))

\* lines 672-673: the warning of a group without gene set
GroupEnd(s) ==
    IF s.flag_foundgeneset THEN s
    ELSE [s EXCEPT !.warnings = Append(@, "ME_FEW_GENESETS")]

\* lines 641-673: the input of gene group g
GroupInput(g, fields, objects, thrown) ==
    GroupEnd(ReadObjects(g, fields[g], GroupStart(objects, thrown)))

RECURSIVE ReadGroups(_, _, _, _, _)
\* lines 638-676: one input for each gene group, in the order of the keys
ReadGroups(groups, fields, inputs, objects, thrown) ==
    IF groups = <<>>
    THEN [input_list |-> inputs, objects |-> objects, warnings |-> thrown]
    ELSE ReadGroups(Tail(groups), fields,
                    Append(inputs, GroupInput(Head(groups), fields, objects, thrown).curr_input),
                    GroupInput(Head(groups), fields, objects, thrown).objects,
                    GroupInput(Head(groups), fields, objects, thrown).warnings)

\* lines 680-694: the region sets of the dictionary, in the order of the keys
SingleInput(keys, objects) ==
    Input(None, SelectSeq(keys, LAMBDA k : objects[k].kind = "GenomicRegionSet"))

\* lines 633-697: the list of the inputs
BuildInputList ==
    /\ pc = "input_list"
    /\ IF flag_gene
       THEN LET g == SetToSeq(DOMAIN exp_matrix_fields_dict)
            IN \E order \in CompletionOrders(Len(g)) :
                  LET read == ReadGroups(Permuted(g, order), exp_matrix_fields_dict,
                                         <<>>, genomic_regions_dict, warnings)
                  IN /\ input_list' = read.input_list
                     /\ genomic_regions_dict' = read.objects
                     /\ warnings' = read.warnings
       ELSE LET k == SetToSeq(DOMAIN genomic_regions_dict)
            IN \E order \in CompletionOrders(Len(k)) :
                  /\ input_list' = <<SingleInput(Permuted(k, order), genomic_regions_dict)>>
                  /\ UNCHANGED <<genomic_regions_dict, warnings>>
    /\ pc' = "motif_list"
    /\ UNCHANGED <<options, motif_names, motif_names_grouped, background, position,
                   mpbs_file, region_files, counts, results, filtered, err>>
    /\ UNCHANGED <<arguments, exp_matrix_fields_dict, flag_gene, regions_to_match,
                   output_files>>

InputNext == BuildInputList

InputSpec == InputInit /\ [][InputNext]_vars

\* ---------------------------------------------------------- properties
\* result_list holds the results of the gene test
GeneResults == pc = "site_test" /\ curr_input.gene_set

\* result_list holds the results of the site test
SiteResults == pc = "wrap_up"

\* the counts of the region set are there
Counted == pc \in {"gene_test", "site_test", "wrap_up"}

\* the number of regions that at least one hit of motif m overlaps, on the
\* same chromosome and on half-open intervals
HitRegions(regions, mpbs, m) ==
    Cardinality({i \in 1..Len(regions) :
        \E j \in 1..Len(mpbs) :
            /\ mpbs[j].name = m
            /\ mpbs[j].chrom = regions[i].chrom
            /\ mpbs[j].initial < regions[i].final
            /\ regions[i].initial < mpbs[j].final})

\* C1: for every motif the counts are a partition of their region set:
\* a + b is the number of evidence regions, c + d the number of reference
\* regions (the non-evidence regions in the gene test, the background in the
\* site test), in the dictionaries and in the results built from them.
C1_CountsArePartitions ==
    /\ Counted =>
         \A i \in 1..Len(motif_names) :
            /\ curr_a_dict[motif_names[i]] + curr_b_dict[motif_names[i]] = Len(ev_regions)
            /\ bg_c_dict[motif_names[i]] + bg_d_dict[motif_names[i]] = Len(background_regions)
            /\ curr_input.gene_set =>
                 curr_c_dict[motif_names[i]] + curr_d_dict[motif_names[i]] = Len(nev_regions)
    /\ GeneResults =>
         \A i \in 1..Len(result_list) :
            /\ result_list[i].a + result_list[i].b = Len(ev_regions)
            /\ result_list[i].c + result_list[i].d = Len(nev_regions)
    /\ SiteResults =>
         \A i \in 1..Len(result_list) :
            /\ result_list[i].a + result_list[i].b = Len(ev_regions)
            /\ result_list[i].c + result_list[i].d = Len(background_regions)

\* a site test whose results have regions with a hit on both sides
C1_Witness ==
    /\ SiteResults
    /\ \E i \in 1..Len(result_list) : result_list[i].a > 0 /\ result_list[i].c > 0
    /\ \E i \in 1..Len(result_list) : result_list[i].b > 0 /\ result_list[i].d > 0

\* C2: the gene test takes a, b from the evidence regions and c, d from the
\* non-evidence regions of the same region set; the site test takes a, b from
\* the evidence regions, all the regions when there is no gene set, and c, d
\* from the background; percent is a / (a + b) and back_percent c / (c + d).
C2_TableSources ==
    /\ (GeneResults \/ SiteResults) =>
         \A i \in 1..Len(result_list) :
            LET r == result_list[i]
            IN /\ r.a = HitRegions(ev_regions, curr_mpbs_bed, r.name)
               /\ r.b = Len(ev_regions) - r.a
               /\ r.percent[1] * (r.a + r.b) = r.a * r.percent[2]
               /\ r.back_percent[1] * (r.c + r.d) = r.c * r.back_percent[2]
    /\ GeneResults =>
         \A i \in 1..Len(result_list) :
            LET r == result_list[i]
            IN /\ r.c = HitRegions(nev_regions, curr_mpbs_bed, r.name)
               /\ r.d = Len(nev_regions) - r.c
    /\ SiteResults =>
         /\ ~curr_input.gene_set => ev_regions = BedLines(grs)
         /\ \A i \in 1..Len(result_list) :
              LET r == result_list[i]
              IN /\ r.c = bg_c_dict[r.name]
                 /\ r.d = bg_d_dict[r.name]
                 /\ r.c + r.d = Len(background_regions)

\* a gene test whose non-evidence regions and background differ in their hits
C2_Witness ==
    /\ GeneResults
    /\ \E i \in 1..Len(result_list) :
          /\ result_list[i].a > 0
          /\ result_list[i].c > 0
          /\ result_list[i].c # bg_c_dict[result_list[i].name]

\* C3: the with-hit count of a motif is the number of regions that at least
\* one hit of the motif overlaps, a region with several hits counted once,
\* the overlap on the same chromosome and on half-open intervals; the
\* without-hit count is the number of the other regions.
C3_PresenceCount ==
    Counted =>
       \A i \in 1..Len(motif_names) :
          LET m == motif_names[i]
          IN /\ curr_a_dict[m] = HitRegions(ev_regions, curr_mpbs_bed, m)
             /\ curr_b_dict[m] = Len(ev_regions) - curr_a_dict[m]
             /\ curr_input.gene_set =>
                  /\ curr_c_dict[m] = HitRegions(nev_regions, curr_mpbs_bed, m)
                  /\ curr_d_dict[m] = Len(nev_regions) - curr_c_dict[m]

\* two hits of one motif on one evidence region, counted once, and a hit that
\* touches a region at its end without overlapping it
C3_Witness ==
    /\ Counted
    /\ \E m \in Range(motif_names), i \in 1..Len(ev_regions) :
          /\ Cardinality({j \in 1..Len(curr_mpbs_bed) :
                             /\ curr_mpbs_bed[j].name = m
                             /\ Overlap(ev_regions[i], curr_mpbs_bed[j])}) = 2
          /\ curr_a_dict[m] = 1
    /\ \E j \in 1..Len(curr_mpbs_bed), i \in 1..Len(grs) :
          /\ curr_mpbs_bed[j].chrom = grs[i].chrom
          /\ curr_mpbs_bed[j].initial = grs[i].final

\* C4: a region set whose evidence or reference regions are empty does not
\* end the run: the test of such a region set never stops on an error.
C4_EmptyPartitionContinues ==
    (Len(ev_regions) = 0 \/ Len(background_regions) = 0
        \/ (curr_input.gene_set /\ Len(nev_regions) = 0))
       => ~(pc = "error" /\ err = "ZeroDivisionError")

Filtered == GeneResults \/ (SiteResults /\ ~curr_input.gene_set)

\* the records of a stream whose motif has a corrected p-value of at most thresh
Kept(stream, dict, thresh) ==
    SelectSeq(stream, LAMBDA rec : dict[rec.name][1] * thresh[2] <= thresh[1] * dict[rec.name][2])

\* C6: the filtered MPBS file holds, once each and in the order of the
\* stream, exactly the records whose motif has a corrected p-value at most
\* print_thresh.
C6_FilterKeepsSignificant ==
    Filtered =>
       /\ ev_mpbs_thresh = Kept(ev_mpbs_temp, corr_pvalue_dict, options.print_thresh)
       /\ nev_mpbs_thresh = Kept(nev_mpbs_temp, corr_pvalue_dict, options.print_thresh)

\* a record written and a record dropped, and a record written whose
\* corrected p-value equals the threshold
C6_Witness ==
    /\ Filtered
    /\ ev_mpbs_thresh # <<>>
    /\ Len(ev_mpbs_thresh) < Len(ev_mpbs_temp)
    /\ \E i \in 1..Len(ev_mpbs_thresh) :
          corr_pvalue_dict[ev_mpbs_thresh[i].name] = options.print_thresh

InRegionSet == pc \in {"association", "statistics", "gene_test", "site_test", "wrap_up"}

\* C8: a region set is never processed with the MPBS file of another region
\* set: while a region set is processed the MPBS file name is its own.
C8_OwnMpbsFile ==
    InRegionSet => curr_mpbs_file_name = curr_input.region_list[grs_idx]

\* the batches have been made
Grouped == pc \notin {"motif_list", "group"} /\ err # "ME_LOW_NPROC"

\* C9: n motif names and p processes give ceil(n / p) batches, contiguous and
\* in the order of the list, every batch of p names but the last one, which
\* has between 1 and p; the batches joined are the list.
C9_BatchesPartition ==
    Grouped =>
       LET n == Len(motif_names)
           p == options.processes
           g == motif_names_grouped
       IN /\ Flatten(g) = motif_names
          /\ Len(g) = (n + p - 1) \div p
          /\ \A i \in 1..Len(g) :
                /\ i < Len(g) => Len(g[i]) = p
                /\ 1 <= Len(g[i]) /\ Len(g[i]) <= p

\* several processes and a last batch that is not full
C9_Witness ==
    /\ Grouped
    /\ options.processes >= 2
    /\ Len(motif_names_grouped) >= 2
    /\ Len(motif_names_grouped[Len(motif_names_grouped)]) < options.processes

\* C10: for any repositories no motif name is twice in the list, so none is
\* in two batches.
C10_NoRepeatedMotif ==
    Grouped =>
       /\ \A i, j \in 1..Len(motif_names) : motif_names[i] = motif_names[j] => i = j
       /\ \A i, j \in 1..Len(motif_names_grouped) :
             i # j => Range(motif_names_grouped[i]) \cap Range(motif_names_grouped[j]) = {}

\* the results of a test as the loop over motif_names builds them from the
\* counts of the batches merged in the order of the list
ResultsInListOrder(test) ==
    LET ev == get_fisher_dict(motif_names_grouped, ev_regions, curr_mpbs_bed)
        nev == get_fisher_dict(motif_names_grouped, nev_regions, curr_mpbs_bed)
    IN [i \in 1..Len(motif_names) |->
          LET k == motif_names[i]
          IN MakeResult(k, [a |-> ev.res1[k], b |-> ev.res2[k],
                            c |-> IF test = "gene" THEN nev.res1[k] ELSE bg_c_dict[k],
                            d |-> IF test = "gene" THEN nev.res2[k] ELSE bg_d_dict[k]],
                        k \in fisher_raised)]

\* C11: the merged counts and the ranked result list of a region set are
\* the same for every order in which the batches complete and are merged:
\* they are those of the batches merged in the order of the list.
C11_RankingIgnoresMergeOrder ==
    /\ Counted =>
         /\ curr_a_dict = get_fisher_dict(motif_names_grouped, ev_regions, curr_mpbs_bed).res1
         /\ curr_b_dict = get_fisher_dict(motif_names_grouped, ev_regions, curr_mpbs_bed).res2
         /\ curr_input.gene_set =>
              /\ curr_c_dict = get_fisher_dict(motif_names_grouped, nev_regions,
                                               curr_mpbs_bed).res1
              /\ curr_d_dict = get_fisher_dict(motif_names_grouped, nev_regions,
                                               curr_mpbs_bed).res2
    /\ GeneResults => result_list = SortResults(Corrected(ResultsInListOrder("gene")))
    /\ SiteResults => result_list = SortResults(Corrected(ResultsInListOrder("site")))

\* results of several motifs whose batches were not merged in the order of
\* the list: the temporary MPBS file shows the order
C11_Witness ==
    /\ SiteResults
    /\ Len(result_list) >= 2
    /\ \E i \in 1..Len(result_list) : result_list[i].name # result_list[1].name
    /\ ev_mpbs_temp # get_fisher_dict(motif_names_grouped, ev_regions, curr_mpbs_bed).out

\* C12: a process count of 0 or less ends the run with ME_LOW_NPROC before
\* any batch is made or any count computed; a process count of 1 gives one
\* batch for each motif of the list, in the order of the list.
C12_ProcessCount ==
    /\ (options.processes <= 0 /\ pc \notin {"motif_list", "group"}) =>
         /\ pc = "error" /\ err = "ME_LOW_NPROC"
         /\ motif_names_grouped = <<>>
         /\ bg_c_dict = EmptyDict /\ bg_d_dict = EmptyDict
         /\ curr_a_dict = EmptyDict /\ curr_b_dict = EmptyDict
         /\ result_list = <<>>
    /\ (options.processes = 1 /\ Grouped) =>
         /\ Len(motif_names_grouped) = Len(motif_names)
         /\ \A i \in 1..Len(motif_names) : motif_names_grouped[i] = <<motif_names[i]>>

\* a run with motifs to group that ended on the process count
C12_Witness ==
    /\ options.processes <= 0
    /\ pc = "error"
    /\ err = "ME_LOW_NPROC"
    /\ Len(motif_names) >= 2

\* two floats are the same number
SameValue(p, q) == p[1] * q[2] = q[1] * p[2]

\* the raw and the corrected p-values of the result list, in its order
RawValues == [i \in 1..Len(result_list) |-> result_list[i].p_value]

CorrectedValues == [i \in 1..Len(result_list) |-> result_list[i].corr_p_value]

\* the Benjamini-Hochberg value of ps[i], written without any sort: the
\* least p * n / (number of values <= p) over the values p >= ps[i], at most 1
StepUpValue(ps, i) ==
    LET n == Len(ps)
        atmost(j) == Cardinality({k \in 1..n : Leq(ps[k], ps[j])})
        vals == {One} \cup {<<ps[j][1] * n, ps[j][2] * atmost(j)>> :
                               j \in {j \in 1..n : Leq(ps[i], ps[j])}}
    IN CHOOSE v \in vals : \A w \in vals : Leq(v, w)

\* C13: the correction keeps the indices: every result, and the entry of its
\* motif in the map, has the corrected value of its own raw p-value, and the
\* correction of a permuted list is the permuted correction of the list.
C13_CorrectionKeepsIndices ==
    (GeneResults \/ SiteResults) =>
       /\ \A i \in 1..Len(result_list) :
             /\ SameValue(result_list[i].corr_p_value, StepUpValue(RawValues, i))
             /\ result_list[i].name \in DOMAIN corr_pvalue_dict
             /\ SameValue(corr_pvalue_dict[result_list[i].name], result_list[i].corr_p_value)
       /\ multiple_test_correction(RawValues) = CorrectedValues
       /\ \A order \in CompletionOrders(Len(result_list)) :
             multiple_test_correction(Permuted(RawValues, order))
                = Permuted(CorrectedValues, order)

\* the motif that is later in the list has the lower corrected p-value, so
\* the ranking has permuted the results
C13_Witness ==
    /\ SiteResults
    /\ \E i, j \in 1..Len(result_list) :
          /\ i < j
          /\ result_list[i].name > result_list[j].name
          /\ Less(result_list[i].corr_p_value, result_list[j].corr_p_value)

\* the result list of RankSpec has its corrected p-values
CorrectedBy(method) == pc \in {"sort", "ranked"} /\ options.method = method

\* C14: for every list of p-values and every index, the corrected value of
\* the dependent method is at least that of the independent method.
C14_DependentAtLeastIndependent ==
    /\ CorrectedBy("negcorr") =>
          \A i \in 1..Len(result_list) :
              Leq(multiple_test_correction_by("indep", RawValues)[i],
                  result_list[i].corr_p_value)
    /\ CorrectedBy("indep") =>
          \A i \in 1..Len(result_list) :
              Leq(result_list[i].corr_p_value,
                  multiple_test_correction_by("negcorr", RawValues)[i])

\* three p-values corrected by the dependent method, one of them to more
\* than the independent method gives and to less than 1
C14_Witness ==
    /\ CorrectedBy("negcorr")
    /\ Len(result_list) = 3
    /\ \E i \in 1..Len(result_list) :
          /\ Less(multiple_test_correction_by("indep", RawValues)[i],
                  result_list[i].corr_p_value)
          /\ Less(result_list[i].corr_p_value, One)

\* C15: with an empty motif list the correction returns an empty list and
\* raises nothing, and the tests of the region set complete with an empty
\* result list, an empty map and empty filtered files.
C15_EmptyMotifList ==
    (motif_names = <<>> /\ pc # "motif_list") =>
       /\ pc = "error" => err \in {"ME_LOW_NPROC", "DEFAULT_ERROR", "NameError"}
       /\ multiple_test_correction(<<>>) = <<>>
       /\ (GeneResults \/ SiteResults) =>
            /\ result_list = <<>>
            /\ corr_pvalue_dict = EmptyDict
            /\ ev_mpbs_thresh = <<>>
            /\ nev_mpbs_thresh = <<>>

\* both tests of a region set with regions and hits done on an empty motif list
C15_Witness ==
    /\ motif_names = <<>>
    /\ SiteResults
    /\ curr_input.gene_set
    /\ ev_regions # <<>>
    /\ curr_mpbs_bed # <<>>

\* the result list has been ranked
Ranked == pc = "ranked" \/ GeneResults \/ SiteResults

\* x is not after y by corrected p-value, then raw p-value, then percent
\* descending, then name
CompositeLeq(x, y) ==
    \/ Less(x.corr_p_value, y.corr_p_value)
    \/ /\ SameValue(x.corr_p_value, y.corr_p_value)
       /\ \/ Less(x.p_value, y.p_value)
          \/ /\ SameValue(x.p_value, y.p_value)
             /\ \/ Less(y.percent, x.percent)
                \/ SameValue(x.percent, y.percent) /\ x.name <= y.name

\* x and y tie on the four keys
FullTie(x, y) ==
    /\ SameValue(x.corr_p_value, y.corr_p_value)
    /\ SameValue(x.p_value, y.p_value)
    /\ SameValue(x.percent, y.percent)
    /\ x.name = y.name

\* C16: after the four sorts the result list is in the order of (corrected
\* p-value ascending, raw p-value ascending, percent descending, name
\* ascending): of two adjacent results the first is not the greater.
C16_CompositeOrder ==
    Ranked => \A i \in 1..(Len(result_list) - 1) :
                 CompositeLeq(result_list[i], result_list[i + 1])

\* a ranked list of three results, two of them apart only by their names and
\* the third with another corrected p-value
C16_Witness ==
    /\ pc = "ranked"
    /\ Len(result_list) = 3
    /\ \E i \in 1..2 :
          /\ SameValue(result_list[i].corr_p_value, result_list[i + 1].corr_p_value)
          /\ SameValue(result_list[i].p_value, result_list[i + 1].p_value)
          /\ SameValue(result_list[i].percent, result_list[i + 1].percent)
          /\ result_list[i].name < result_list[i + 1].name
    /\ \E i \in 1..2 : Less(result_list[i].corr_p_value, result_list[i + 1].corr_p_value)

\* C17: the ranking of a ranked result list is the list itself, in the same
\* order, also when results tie on the four keys.
C17_RankingIdempotent ==
    Ranked => SortResults(result_list) = result_list

\* a ranked list with two different results that tie on the four keys
C17_Witness ==
    /\ pc = "ranked"
    /\ \E i \in 1..(Len(result_list) - 1) :
          /\ FullTie(result_list[i], result_list[i + 1])
          /\ result_list[i] # result_list[i + 1]

\* C18: with b, c, d fixed, one more evidence region with a hit never gives a
\* greater right-tail p-value: that of (a + 1, b, c, d) is at most that of
\* (a, b, c, d), for the table the test is about to read and for the p-value
\* of every result.
C18_FisherMonotone ==
    /\ pc = "site_test" =>
         \A i \in 1..Len(motif_names) :
            LET t == SiteTable(motif_names[i])
            IN Leq(RightTail(t.a + 1, t.b, t.c, t.d), RightTail(t.a, t.b, t.c, t.d))
    /\ SiteResults =>
         \A i \in 1..Len(result_list) :
            LET r == result_list[i]
            IN r.name \notin fisher_raised =>
                  Leq(RightTail(r.a + 1, r.b, r.c, r.d), r.p_value)

\* a result whose p-value one more region with a hit makes lower
C18_Witness ==
    /\ SiteResults
    /\ \E i \in 1..Len(result_list) :
          LET r == result_list[i]
          IN /\ r.a >= 1 /\ r.b >= 1 /\ r.c >= 1 /\ r.d >= 1
             /\ r.name \notin fisher_raised
             /\ Less(RightTail(r.a + 1, r.b, r.c, r.d), r.p_value)
             /\ Less(r.p_value, One)

\* the files of the association of the region set are written
Associated == pc \in {"statistics", "gene_test", "site_test", "wrap_up"}

\* C19: with a gene set, a region is in the evidence file if and only if its
\* name holds a token other than the bare ".": a gene with the marker "."
\* counts like a gene without it.
C19_MarkedGeneIsEvidence ==
    (Associated /\ curr_input.gene_set) =>
       /\ ev_regions = BedLines(SelectSeq(grs, LAMBDA gr : \E j \in 1..Len(gr.name) :
                                                                gr.name[j] # DotToken))
       /\ nev_regions = BedLines(SelectSeq(grs, LAMBDA gr : \A j \in 1..Len(gr.name) :
                                                                 gr.name[j] = DotToken))

\* C20: the association file has one line for each region, with the name
\* "." when the region has no gene and otherwise one token for each gene of
\* the region, in their order: the gene without its marker and the distance
\* of that gene.
C20_AssociationName ==
    (Associated /\ curr_input.gene_set) =>
       /\ Len(association_bed) = Len(grs)
       /\ \A i \in 1..Len(grs) :
             /\ association_bed[i].chrom = grs[i].chrom
             /\ association_bed[i].initial = grs[i].initial
             /\ association_bed[i].final = grs[i].final
             /\ IF grs[i].name = <<DotToken>>
                THEN association_bed[i].name = BareDot
                ELSE /\ ~association_bed[i].name.bare
                     /\ Len(association_bed[i].name.tokens) = Len(grs[i].name)
                     /\ \A j \in 1..Len(grs[i].name) :
                           /\ association_bed[i].name.tokens[j].gene = grs[i].name[j].gene
                           /\ association_bed[i].name.tokens[j].distance
                                 = grs[i].proximity[j]

\* a region without gene, and a region with two genes at different
\* distances, the second gene with the marker
C20_Witness ==
    /\ Associated
    /\ curr_input.gene_set
    /\ \E i \in 1..Len(grs) : grs[i].name = <<DotToken>>
    /\ \E i \in 1..Len(grs) :
          /\ Len(grs[i].name) = 2
          /\ grs[i].name[2].marker
          /\ ~grs[i].name[1].marker
          /\ grs[i].proximity[1] # grs[i].proximity[2]

RECURSIVE PickFrom(_, _, _)
\* the elements of s at the positions of S, from position i on, in the order of s
PickFrom(s, S, i) ==
    IF i > Len(s) THEN <<>>
    ELSE (IF i \in S THEN <<s[i]>> ELSE <<>>) \o PickFrom(s, S, i + 1)

\* the fields of a region that the association must keep
KeptFields(gr) ==
    [chrom |-> gr.chrom, initial |-> gr.initial, final |-> gr.final,
     data |-> gr.data, orientation |-> gr.orientation]

KeptFieldsOf(regions) == [i \in 1..Len(regions) |-> KeptFields(regions[i])]

\* C21: the association keeps the regions: the association file has one line
\* for each region of the input region set, in its order and with its chrom,
\* start and end, and the evidence and non-evidence files hold the regions
\* of the input region set with their chrom, start, end, score and strand,
\* each file in the order of the input.
C21_RegionsKept ==
    [][pc = "association" =>
          /\ curr_input.gene_set =>
                /\ Len(association_bed') = Len(grs)
                /\ \A i \in 1..Len(grs) :
                      /\ association_bed'[i].chrom = grs[i].chrom
                      /\ association_bed'[i].initial = grs[i].initial
                      /\ association_bed'[i].final = grs[i].final
          /\ \E S \in SUBSET (1..Len(grs)) :
                /\ KeptFieldsOf(ev_regions') = PickFrom(KeptFieldsOf(grs), S, 1)
                /\ curr_input.gene_set =>
                      KeptFieldsOf(nev_regions')
                         = PickFrom(KeptFieldsOf(grs), (1..Len(grs)) \ S, 1)]_vars

\* two evidence regions of a gene set that differ in their coordinates,
\* their scores and their strands
C21_Witness ==
    /\ Associated
    /\ curr_input.gene_set
    /\ Len(ev_regions) = 2
    /\ ev_regions[1].initial # ev_regions[2].initial
    /\ ev_regions[1].data # ev_regions[2].data
    /\ ev_regions[1].orientation # ev_regions[2].orientation
    /\ Len(association_bed) = 2

\* the genes of the name of a region
GenesOf(gr) == {gr.name[j].gene : j \in 1..Len(gr.name)} \ {DotToken.gene}

\* every gene of the annotation on the chromosome of the region is farther
\* from it than d
NearestFarther(gr, annotation, d) ==
    \A j \in 1..Len(annotation) :
        annotation[j].chrom = gr.chrom => Abs(SignedDistance(gr, annotation[j])) > d

\* C22: the association is monotonic in the maximum association length: for
\* every region and every d1 at most the length of the options, the genes
\* associated with d1 are among those associated with that length; and a
\* region whose nearest gene is farther than that length has the name "."
\* and the proximity ".".
C22_AssociationMonotone ==
    [][pc = "association" =>
          \A i \in 1..Len(grs) :
              /\ \A d1 \in 0..options.maximum_association_length :
                    GenesOf(gene_association(grs, curr_input.gene_set, options.organism,
                                             d1)[i])
                       \subseteq GenesOf(grs'[i])
              /\ NearestFarther(grs[i], options.organism,
                                options.maximum_association_length) =>
                    grs'[i].name = <<DotToken>> /\ grs'[i].proximity = <<".">>]_vars

\* a region with a gene that a length one less would not associate, and a
\* region with the name "." on a chromosome that has genes farther away
C22_Witness ==
    /\ Associated
    /\ options.maximum_association_length >= 1
    /\ \E i \in 1..Len(grs) :
          /\ GenesOf(grs[i]) # {}
          /\ GenesOf(gene_association(grs, curr_input.gene_set, options.organism,
                                      options.maximum_association_length - 1)[i])
                # GenesOf(grs[i])
    /\ \E i \in 1..Len(grs) :
          /\ grs[i].name = <<DotToken>>
          /\ \E j \in 1..Len(options.organism) : options.organism[j].chrom = grs[i].chrom

\* C23: after the correction and the four sorts no field of a result is
\* changed: the results the report writers read have the name, the counts,
\* the two frequencies and the two p-values of the sorted result list.
C23_NoChangeAfterSort ==
    (GeneResults \/ SiteResults) =>
       /\ Len(report_list) = Len(result_list)
       /\ \A i \in 1..Len(result_list) :
             /\ report_list[i].name = result_list[i].name
             /\ report_list[i].a = result_list[i].a
             /\ report_list[i].b = result_list[i].b
             /\ report_list[i].c = result_list[i].c
             /\ report_list[i].d = result_list[i].d
             /\ report_list[i].p_value = result_list[i].p_value
             /\ report_list[i].corr_p_value = result_list[i].corr_p_value
             /\ report_list[i].percent = result_list[i].percent
             /\ report_list[i].back_percent = result_list[i].back_percent

\* the region set at grs_idx is the last one of the input list
LastRegionSet == input_idx = Len(input_list) /\ grs_idx = Len(curr_input.region_list)

\* C24: an error raised while a region set is processed (a division by zero
\* in percent, a missing key in the filter) does not end the run over the
\* other region sets: the run stops on such an error only when no region
\* set is left to process.
C24_ErrorsScoped ==
    (pc = "error" /\ err \in {"ZeroDivisionError", "KeyError"}) => LastRegionSet

\* C25: with print_thresh = 1.0 the filter writes every record of the
\* temporary streams, in their order: no corrected p-value that the
\* correction returns is above 1.0.
C25_ThreshOneKeepsAll ==
    (Filtered /\ options.print_thresh = One) =>
       /\ \A k \in DOMAIN corr_pvalue_dict : Leq(corr_pvalue_dict[k], One)
       /\ ev_mpbs_thresh = ev_mpbs_temp
       /\ nev_mpbs_thresh = nev_mpbs_temp

\* a filter with print_thresh = 1.0 on a stream with records of a motif
\* with the corrected p-value 1.0 and of a motif with a lower one
C25_Witness ==
    /\ Filtered
    /\ options.print_thresh = One
    /\ \E i \in 1..Len(ev_mpbs_temp) : corr_pvalue_dict[ev_mpbs_temp[i].name] = One
    /\ \E i \in 1..Len(ev_mpbs_temp) : Less(corr_pvalue_dict[ev_mpbs_temp[i].name], One)

\* main_matching has the list of the region sets to match
RegionsSelected == pc \in {"matching_random", "matching_match", "done"}

\* C26: with a gene-list file, main_matching ignores the input files and the
\* experimental matrix: the run is not refused for want of an input file or
\* a matrix, and the only region sets read and matched are the promoters of
\* the target genes and, with --make-background, of the background genes.
C26_GeneListOnly ==
    options.promoter_genes_filename =>
       /\ err # "ME_FEW_ARG"
       /\ DOMAIN genomic_regions_dict \subseteq {"target_regions", "background_regions"}
       /\ RegionsSelected =>
             /\ "target_regions" \in Range(regions_to_match)
             /\ Range(regions_to_match) \subseteq
                   {"target_regions"} \cup (IF options.promoter_make_background
                                            THEN {"background_regions"} ELSE {})

\* C27: without --normalize-bitscore main_matching never creates a bigbed
\* file, whatever the other options.
C27_NoBigbedWithoutNormalize ==
    ~options.normalize_bitscore => \A f \in output_files : f.ext # "bb"

\* C28: after the gene association every region of the region set is in
\* exactly one of ev_regions.bed and nev_regions.bed, so the two files have
\* together as many lines as the region set has regions, and in the gene
\* test a + b + c + d is the number of regions for every motif.
C28_EveryRegionInOneFile ==
    /\ (Associated /\ curr_input.gene_set) =>
          /\ Len(ev_regions) + Len(nev_regions) = Len(grs)
          /\ \A i \in 1..Len(grs) :
                (RegionLine(grs[i]) \in Range(ev_regions))
                   # (RegionLine(grs[i]) \in Range(nev_regions))
    /\ GeneResults =>
          \A i \in 1..Len(result_list) :
             result_list[i].a + result_list[i].b + result_list[i].c + result_list[i].d
                = Len(grs)

\* a gene test on a region set with evidence regions, regions that only have
\* genes outside the gene set, and a motif that hits some region
C28_Witness ==
    /\ GeneResults
    /\ ev_regions # <<>>
    /\ \E i \in 1..Len(nev_regions) : nev_regions[i].name # <<DotToken>>
    /\ \E i \in 1..Len(result_list) : result_list[i].a + result_list[i].c > 0

\* C29: with a gene set the evidence and non-evidence MPBS records are
\* filtered once, with the corrected p-values of the gene test: the site test
\* of the region set leaves the two filtered files as they are, whatever its
\* corrected p-values. Without a gene set the evidence MPBS records are
\* filtered with the corrected p-values of the site test.
C29_FilteredOnce ==
    [][/\ (pc = "site_test" /\ curr_input.gene_set) =>
             /\ ev_mpbs_thresh' = Kept(ev_mpbs_temp, corr_pvalue_dict, options.print_thresh)
             /\ nev_mpbs_thresh' = Kept(nev_mpbs_temp, corr_pvalue_dict, options.print_thresh)
             /\ UNCHANGED filtered
       /\ (pc = "site_test" /\ ~curr_input.gene_set /\ pc' = "wrap_up") =>
             ev_mpbs_thresh' = Kept(ev_mpbs_temp', corr_pvalue_dict', options.print_thresh)]_vars

\* after the site test of a region set with a gene set, the corrected
\* p-values of the site test would keep other evidence records than the
\* ones written
C29_Witness ==
    /\ SiteResults
    /\ curr_input.gene_set
    /\ ev_mpbs_thresh # Kept(ev_mpbs_temp, corr_pvalue_dict, options.print_thresh)

\* the list of the inputs has been built from a matrix with gene groups
InputsOfGroups == pc = "motif_list" /\ flag_gene

\* the GeneSets of gene group g, in the order of the group
GeneSetsOf(g) ==
    SelectSeq(exp_matrix_fields_dict[g], LAMBDA k : genomic_regions_dict[k].kind = "GeneSet")

\* the GenomicRegionSets of gene group g, in the order of the group
RegionSetsOf(g) ==
    SelectSeq(exp_matrix_fields_dict[g],
              LAMBDA k : genomic_regions_dict[k].kind = "GenomicRegionSet")

Occurrences(s, x) == Len(SelectSeq(s, LAMBDA e : e = x))

RECURSIVE Sum(_, _)
Sum(f, S) ==
    IF S = {} THEN 0
    ELSE LET x == CHOOSE x \in S : TRUE IN f[x] + Sum(f, S \ {x})

\* C30: each gene group of the matrix gives one input; its gene set is the
\* first GeneSet of the group, named by the label of the group, or None when
\* the group has no GeneSet; its region list holds every GenomicRegionSet of
\* the group once, in the order of the group; ME_MANY_GENESETS is thrown once
\* for every GeneSet of a group after the first, ME_FEW_GENESETS once for
\* every group without GeneSet.
C30_FirstGeneSetOfGroup ==
    InputsOfGroups =>
       LET groups == DOMAIN exp_matrix_fields_dict
       IN /\ \E at \in [groups -> 1..Len(input_list)] :
                /\ \A g, h \in groups : at[g] = at[h] => g = h
                /\ Len(input_list) = Cardinality(groups)
                /\ \A g \in groups :
                      /\ input_list[at[g]].region_list = RegionSetsOf(g)
                      /\ IF GeneSetsOf(g) = <<>>
                         THEN input_list[at[g]].gene_set = None
                         ELSE /\ input_list[at[g]].gene_set = GeneSetsOf(g)[1]
                              /\ genomic_regions_dict[GeneSetsOf(g)[1]].name = g
          /\ Occurrences(warnings, "ME_MANY_GENESETS")
                = Sum([g \in groups |-> IF GeneSetsOf(g) = <<>> THEN 0
                                        ELSE Len(GeneSetsOf(g)) - 1], groups)
          /\ Occurrences(warnings, "ME_FEW_GENESETS")
                = Cardinality({g \in groups : GeneSetsOf(g) = <<>>})

\* a matrix with a group of two GeneSets and a GenomicRegionSet and a group
\* without GeneSet
C30_Witness ==
    /\ InputsOfGroups
    /\ \E g \in DOMAIN exp_matrix_fields_dict :
          Len(GeneSetsOf(g)) = 2 /\ RegionSetsOf(g) # <<>>
    /\ \E g \in DOMAIN exp_matrix_fields_dict :
          GeneSetsOf(g) = <<>> /\ RegionSetsOf(g) # <<>>
    /\ "ME_MANY_GENESETS" \in Range(warnings)
    /\ "ME_FEW_GENESETS" \in Range(warnings)
====
